---------------------------- MODULE Spec2Model ----------------------------
(***************************************************************************)
(* A model of the surfability API (src/index.ts): the scoring engine       *)
(* calculateSurfability, the NOAA buoy feed parser parseBuoyData and the   *)
(* forecast window summarizer getConditionsDuration; the tide station      *)
(* client fetchTideData and the GET /surfability handler, one action for   *)
(* each run between two awaits; and the cache and the services of          *)
(* src/unnamed/part_002.                                                   *)
(*                                                                         *)
(* A JavaScript number is an IEEE 754 double and is modelled as one: a     *)
(* finite number is its sign and m * 2^e for a natural number m of any     *)
(* size, and parseFloat, the products, sums, quotients, Math.round and the *)
(* comparisons give the double that JavaScript gives, rounded to nearest   *)
(* with ties to even.  The other values are NaN, the two infinities,       *)
(* undefined and null.  A JavaScript string is the sequence of its UTF-16  *)
(* code units; the messages the program only passes on are strings of      *)
(* this module.                                                            *)
(***************************************************************************)
EXTENDS Integers, Sequences, FiniteSets, TLC

VARIABLES
    pc,          \* where the operation stands: "ready" or "done" for a
                 \* function applied in one go, else the await at which
                 \* fetchTideData or the handler is suspended
    reading,     \* calculateSurfability: its argument (a SurfData)
    result,      \* calculateSurfability: the SurfabilityResult it returned
    buoyFeed,    \* parseBuoyData: the feed as fetched, as header lines and rows
    buoyText,    \* parseBuoyData: its argument (the raw text of buoyFeed)
    buoyOut,     \* parseBuoyData: what it returned (a reading or Null)
    forecasts,   \* getConditionsDuration: its hourlyForecasts argument, an
                 \* array written as runs of equal hours, or Null/Undefined
    nowT,        \* getConditionsDuration: the clock read by new Date()
    tideArg,     \* getConditionsDuration: its tide argument
    duration,    \* getConditionsDuration: what it returned, with call counts
    clockHour,   \* getSimpleTideState: the local hour, new Date().getHours()
    tideAt,      \* getSimpleTideState: the hour of its last call (-1: none)
    tideState,   \* getSimpleTideState: what its last call returned
    tideReplies, \* fetchTideData: the outcomes of its two requests
    tideNow,     \* fetchTideData: the clock read by new Date(), in hours
    tideLocals,  \* fetchTideData: its local currentHeight, kept across awaits
    tideData,    \* fetchTideData: the TideData it returned
    replies,     \* GET /surfability: the outcomes of the buoy, marine and
                 \* weather requests, and the clock
    marineData,  \* GET /surfability: the marine JSON kept, or Null
    calls,       \* GET /surfability: what it passed to calculateSurfability
                 \* and to getConditionsDuration
    responses,   \* GET /surfability: the responses sent, in order
    route,       \* GET /surfability: the handler that serves the request
    settled,     \* SurfController.getSurfability: the four calls it gives to
                 \* Promise.allSettled, each at its await or settled
    caches,      \* SurfController.getSurfability: the Maps of the caches of
                 \* its three services
    store,       \* SimpleCache: its Map, the entries in insertion order
    clock,       \* SimpleCache: the clock read by Date.now()
    limits,      \* SimpleCache: maxSize and ttl given to the constructor,
                 \* and the owner of the cache (a bare SimpleCache, or the
                 \* service that holds it as its private cache)
    returned,    \* SimpleCache: the last operation and what it returned
    flights      \* getMarineData, getWeatherData, getBuoyData, getTideData:
                 \* the calls suspended at an await, in the order in which
                 \* they were made

scoreVars == <<reading, result>>
buoyVars == <<buoyFeed, buoyText, buoyOut>>
durationVars == <<forecasts, nowT, tideArg, duration>>
tideVars == <<clockHour, tideAt, tideState>>
tideFetchVars == <<tideReplies, tideNow, tideLocals, tideData>>
handlerVars == <<replies, marineData, calls, responses, route, settled, caches>>
cacheVars == <<store, clock, limits, returned, flights>>
restVars == <<tideVars, tideFetchVars, handlerVars, cacheVars>>
vars == <<pc, scoreVars, buoyVars, durationVars, restVars>>

-----------------------------------------------------------------------------
(* Bounds of the model *)

\* Math.random() is a draw u in 0..RandRes-1 standing for the real u/RandRes.
RandRes == 2

\* The most runs of equal hours a forecast array is made of.
MaxRuns == 3

\* The most high/low predictions a tide station reply lists.
MaxPredictions == 3

\* The most calls of a service method suspended at one time.
MaxFlights == 2

-----------------------------------------------------------------------------
(* Natural numbers of any size, for the mantissas of doubles and the digits
   of decimals: a sequence of limbs to the base 2^15, the lowest first and
   the highest not 0; <<>> is 0.  Every operation looks at the length of its
   operands before anything else. *)

LimbBits == 15
Base == 2 ^ LimbBits

Limb(a, i) == IF 1 <= i /\ i <= Len(a) THEN a[i] ELSE 0

\* a without zero limbs on top
TopLimb(a) ==
    CHOOSE i \in 0 .. Len(a) : (i = 0 \/ a[i] # 0) /\ \A j \in (i + 1) .. Len(a) : a[j] = 0
Stripped(a) == SubSeq(a, 1, TopLimb(a))
Norm(a) == Stripped(a \o <<>>)

\* an integer 0 <= n < 2^31
Natural(n) == Norm(<<n % Base, (n \div Base) % Base, n \div (Base * Base)>>)

\* a natural number below 2^30 as an integer
ToInteger(a) == Limb(a, 1) + Limb(a, 2) * Base

\* the number of bits of a limb, and of a natural number
Bits(n) == IF n = 0 THEN 0 ELSE CHOOSE k \in 1 .. LimbBits : 2^(k - 1) <= n /\ n < 2^k
BitLen(a) == IF Len(a) = 0 THEN 0 ELSE LimbBits * (Len(a) - 1) + Bits(a[Len(a)])

\* a * 2^n
ShiftedLimb(a, j, r) ==
    ((Limb(a, j) * 2^r) % Base) + (Limb(a, j - 1) \div 2^(LimbBits - r))
ShiftLeft(a, n) ==
    IF Len(a) = 0 THEN <<>>
    ELSE Norm([i \in 1 .. (Len(a) + n \div LimbBits + 1) |->
                  ShiftedLimb(a, i - n \div LimbBits, n % LimbBits)])

\* a \div 2^n
DroppedLimb(a, j, r) ==
    (Limb(a, j) \div 2^r) + ((Limb(a, j + 1) % 2^r) * 2^(LimbBits - r))
ShiftRight(a, n) ==
    IF Len(a) <= n \div LimbBits THEN <<>>
    ELSE Norm([i \in 1 .. (Len(a) - n \div LimbBits) |->
                  DroppedLimb(a, i + n \div LimbBits, n % LimbBits)])

\* bit k of a (bit 0 is the lowest), and whether a bit below bit k is set
TestBit(a, k) == (Limb(a, k \div LimbBits + 1) \div 2^(k % LimbBits)) % 2 = 1
AnyBitBelow(a, k) ==
    \/ \E i \in 1 .. Len(a) : i <= k \div LimbBits /\ a[i] # 0
    \/ Limb(a, k \div LimbBits + 1) % 2^(k % LimbBits) # 0

\* the number of zero bits below the lowest bit set (a is not 0)
LowestLimb(a) == CHOOSE i \in 1 .. Len(a) : a[i] # 0 /\ \A j \in 1 .. (i - 1) : a[j] = 0
LowestBit(n) == CHOOSE k \in 0 .. (LimbBits - 1) : n % 2^(k + 1) # 0
TrailingZeros(a) == LimbBits * (LowestLimb(a) - 1) + LowestBit(a[LowestLimb(a)])

\* -1, 0, 1 as a is below, equal to, above b
TopDifference(a, b) ==
    CHOOSE i \in 0 .. Len(a) :
        (i = 0 \/ a[i] # b[i]) /\ \A j \in (i + 1) .. Len(a) : a[j] = b[j]
CompareAt(a, b, i) == IF i = 0 THEN 0 ELSE IF a[i] < b[i] THEN -1 ELSE 1
Compare(a, b) ==
    IF Len(a) # Len(b) THEN (IF Len(a) < Len(b) THEN -1 ELSE 1)
    ELSE CompareAt(a, b, TopDifference(a, b))

\* a + b: limb by limb, a carry coming into limb i from the nearest limb
\* below that the limbs between pass it through
LimbSum(a, b, i) == Limb(a, i) + Limb(b, i)
CarryInto(a, b, i) ==
    IF \E j \in 1 .. (i - 1) :
          /\ LimbSum(a, b, j) >= Base
          /\ \A k \in (j + 1) .. (i - 1) : LimbSum(a, b, k) = Base - 1
    THEN 1 ELSE 0
LongerLen(a, b) == IF Len(a) < Len(b) THEN Len(b) ELSE Len(a)
Add(a, b) ==
    IF Len(a) = 0 THEN b
    ELSE IF Len(b) = 0 THEN a
    ELSE Norm([i \in 1 .. (LongerLen(a, b) + 1) |-> (LimbSum(a, b, i) + CarryInto(a, b, i)) % Base])

\* a - b for a >= b
BorrowFrom(a, b, i) ==
    IF \E j \in 1 .. (i - 1) :
          /\ a[j] < Limb(b, j)
          /\ \A k \in (j + 1) .. (i - 1) : a[k] = Limb(b, k)
    THEN 1 ELSE 0
Sub(a, b) ==
    IF Len(a) = 0 \/ Len(b) = 0 THEN a
    ELSE Norm([i \in 1 .. Len(a) |-> (a[i] - Limb(b, i) - BorrowFrom(a, b, i)) % Base])

\* a * k for a limb k
MulSmall(a, k) ==
    IF Len(a) = 0 \/ k = 0 THEN <<>>
    ELSE Add([i \in 1 .. Len(a) |-> (a[i] * k) % Base],
        <<0>> \o [i \in 1 .. Len(a) |-> (a[i] * k) \div Base])

\* a * b, column by column.  Column k holds the low halves of the products
\* a[i] * b[k + 1 - i] and the high halves of those of column k - 1; the
\* carries then go up from the lowest column.
RECURSIVE ColumnSum(_, _, _, _, _)
ColumnSum(a, b, k, i, high) ==
    IF i > Len(a) \/ i > k THEN 0
    ELSE IF k + 1 - i > Len(b) THEN ColumnSum(a, b, k, i + 1, high)
    ELSE (IF high THEN (a[i] * b[k + 1 - i]) \div Base ELSE (a[i] * b[k + 1 - i]) % Base)
         + ColumnSum(a, b, k, i + 1, high)
ProductColumn(a, b, k) == ColumnSum(a, b, k, 1, FALSE) + ColumnSum(a, b, k - 1, 1, TRUE)
RECURSIVE Carried(_, _, _)
Carried(columns, k, carry) ==
    IF k > Len(columns) THEN <<>>
    ELSE <<(columns[k] + carry) % Base>>
         \o Carried(columns, k + 1, (columns[k] + carry) \div Base)
Mul(a, b) ==
    IF Len(a) = 0 \/ Len(b) = 0 THEN <<>>
    ELSE Norm(Carried([k \in 1 .. (Len(a) + Len(b)) |-> ProductColumn(a, b, k)] \o <<>>, 1, 0))

\* The limbs lo..hi of a divided by 1 <= d < 2^15, r being what is left of
\* the limbs above: the remainder, then the limbs of the quotient.
RECURSIVE DivRange(_, _, _, _, _)
DivLower(a, d, lo, mid, upper) ==
    IF Len(upper) = 0 THEN upper ELSE DivRange(a, d, lo, mid, upper[1]) \o Tail(upper)
DivRange(a, d, lo, hi, r) ==
    IF lo = hi THEN <<(r * Base + a[lo]) % d, (r * Base + a[lo]) \div d>>
    ELSE DivLower(a, d, lo, (lo + hi) \div 2, DivRange(a, d, (lo + hi) \div 2 + 1, hi, r))
DivSmall(a, d) == IF Len(a) = 0 THEN <<0>> ELSE DivRange(a, d, 1, Len(a), 0)
Quotient(qr) == Norm(Tail(qr))
Remainder(qr) == qr[1]

\* a * c^n for a limb c
RECURSIVE MulPower(_, _, _)
MulPower(a, c, n) ==
    IF n = 0 \/ Len(a) = 0 THEN a
    ELSE IF n = 1 THEN MulSmall(a, c)
    ELSE MulPower(MulPower(a, c, n \div 2), c, n - n \div 2)

\* a * 10^k
MulPow10(a, k) == MulPower(MulPower(a, 10000, k \div 4), 10, k % 4)

\* [q, inexact] divided n times by the limb c: the quotient, and whether a
\* remainder was left
DivStep(qr, inexact) == [q |-> Quotient(qr), inexact |-> inexact \/ Remainder(qr) # 0]
RECURSIVE DivPower(_, _, _)
DivPower(x, c, n) ==
    IF n = 0 \/ Len(x.q) = 0 THEN x
    ELSE IF n = 1 THEN DivStep(DivSmall(x.q, c), x.inexact)
    ELSE DivPower(DivPower(x, c, n \div 2), c, n - n \div 2)

\* a \div 10^k, and whether a digit other than 0 was dropped
DivPow10(a, k) == DivPower(DivPower([q |-> a, inexact |-> FALSE], 10000, k \div 4), 10, k % 4)

-----------------------------------------------------------------------------
(* JavaScript values.  A Number is an IEEE 754 double: a finite one is
   [t |-> "num"] with its sign neg, its value m * 2^e (m a natural number that
   is odd, or 0 with e = 0) and, for the comparisons with the limits of the
   source, which are all whole halves, twice == floor(2 * value) kept within
   -Far .. Far and part == whether 2 * value is not whole. *)

NaN == [t |-> "nan"]
Infinity == [t |-> "inf"]
NegInfinity == [t |-> "ninf"]
Undefined == [t |-> "undefined"]
Null == [t |-> "null"]

Precision == 53
MaxExponent == 1024
MinNormal == -1022
MinExponent == -1074
FarBits == 20
Far == 2 ^ FarBits

Signed(neg, n) == IF neg THEN -n ELSE n

Zero(neg) == [t |-> "num", neg |-> neg, m |-> <<>>, e |-> 0, twice |-> 0, part |-> FALSE]

\* floor(2 * m * 2^e) of an odd m, below Far
Floor2(neg, m, e) ==
    IF e >= -1 THEN Signed(neg, ToInteger(ShiftLeft(m, e + 1)))
    ELSE IF neg THEN -(ToInteger(ShiftRight(m, -(e + 1))) + 1)
    ELSE ToInteger(ShiftRight(m, -(e + 1)))

\* the double m * 2^e of an odd m that has at most Precision bits
Odd(neg, m, e) ==
    [t |-> "num", neg |-> neg, m |-> m, e |-> e,
     twice |-> IF BitLen(m) + e + 1 > FarBits THEN Signed(neg, Far) ELSE Floor2(neg, m, e),
     part |-> BitLen(m) + e + 1 <= FarBits /\ e < -1]

\* the double m * 2^e of an m that has at most Precision bits: an infinity
\* from 2^1024 on
Finite(neg, m, e) ==
    IF Len(m) = 0 THEN Zero(neg)
    ELSE IF BitLen(m) + e > MaxExponent THEN (IF neg THEN NegInfinity ELSE Infinity)
    ELSE Odd(neg, ShiftRight(m, TrailingZeros(m)), e + TrailingZeros(m))

\* The number of low bits of an m of n bits that a double of value m * 2^e
\* cannot hold: all but 53, and below 2^-1022 all those under 2^-1074.
Dropped(n, e) == IF e + n - 1 >= MinNormal THEN n - Precision ELSE MinExponent - e

\* Round to nearest, ties to even: whether dropping the low `drop` bits of m
\* rounds up; inexact says that the value lies above m * 2^e.
RoundsUp(m, drop, inexact) ==
    /\ TestBit(m, drop - 1)
    /\ inexact \/ AnyBitBelow(m, drop - 1) \/ TestBit(m, drop)

Rounded(q, up) == IF up THEN Add(q, <<1>>) ELSE q

RoundDrop(neg, m, e, inexact, drop) ==
    IF drop <= 0 THEN Finite(neg, m, e)
    ELSE Finite(neg, Rounded(ShiftRight(m, drop), RoundsUp(m, drop, inexact)), e + drop)

\* The double nearest to m * 2^e, or to a value between that and
\* (m + 1) * 2^e when inexact (m then has more than Precision bits).
Round(neg, m, e, inexact) ==
    IF Len(m) = 0 THEN Zero(neg) ELSE RoundDrop(neg, m, e, inexact, Dropped(BitLen(m), e))

\* a whole number -2^31 < n < 2^31
Whole(n) == IF n < 0 THEN Finite(TRUE, Natural(-n), 0) ELSE Finite(FALSE, Natural(n), 0)

IsNum(x) == x.t = "num"
IsFinite(x) == x.t = "num"

\* ToNumber(x), the conversion a comparison, a product, a sum or Math.round
\* applies to its operand: undefined is NaN, null is +0.
ToNumber(x) == IF x.t = "undefined" THEN NaN ELSE IF x.t = "null" THEN Zero(FALSE) ELSE x

\* isNaN(x)
IsNaN(x) == ToNumber(x).t = "nan"

\* The sign of a number that is not NaN.
Negative(x) == x.t = "ninf" \/ (x.t = "num" /\ x.neg)
Negate(x) ==
    IF x.t = "num"
    THEN [x EXCEPT !.neg = ~x.neg,
                   !.twice = IF x.part THEN -(x.twice + 1) ELSE -x.twice]
    ELSE IF x.t = "inf" THEN NegInfinity
    ELSE IF x.t = "ninf" THEN Infinity ELSE x

\* Math.abs(x)
MathAbs(x) == IF Negative(ToNumber(x)) THEN Negate(ToNumber(x)) ELSE ToNumber(x)

\* x * y of two numbers
NumberTimes(x, y) ==
    IF x.t = "nan" \/ y.t = "nan" THEN NaN
    ELSE IF x.t = "num" /\ y.t = "num"
    THEN Round(x.neg # y.neg, Mul(x.m, y.m), x.e + y.e, FALSE)
    ELSE IF (x.t = "num" /\ Len(x.m) = 0) \/ (y.t = "num" /\ Len(y.m) = 0) THEN NaN
    ELSE IF Negative(x) # Negative(y) THEN NegInfinity ELSE Infinity

\* x * y
Times(x, y) == NumberTimes(ToNumber(x), ToNumber(y))

\* x + y of two finite numbers, from their mantissas at the lower exponent
SumAt(xneg, a, yneg, b, e) ==
    IF xneg = yneg THEN Round(xneg, Add(a, b), e, FALSE)
    ELSE IF Compare(a, b) = 0 THEN Zero(FALSE)
    ELSE IF Compare(a, b) > 0 THEN Round(xneg, Sub(a, b), e, FALSE)
    ELSE Round(yneg, Sub(b, a), e, FALSE)

NumberPlus(x, y) ==
    IF x.t = "nan" \/ y.t = "nan" THEN NaN
    ELSE IF x.t = "num" /\ y.t = "num"
    THEN IF x.e <= y.e
         THEN SumAt(x.neg, x.m, y.neg, ShiftLeft(y.m, y.e - x.e), x.e)
         ELSE SumAt(x.neg, ShiftLeft(x.m, x.e - y.e), y.neg, y.m, y.e)
    ELSE IF x.t = "num" THEN y
    ELSE IF y.t = "num" \/ x.t = y.t THEN x
    ELSE NaN

\* x + y, x - y
Plus(x, y) == NumberPlus(ToNumber(x), ToNumber(y))
Minus(x, y) == NumberPlus(ToNumber(x), Negate(ToNumber(y)))

\* x / d for a whole number 1 <= d < 2^15
DivideBits == 80
RoundQuotient(neg, qr, e) == Round(neg, Quotient(qr), e, Remainder(qr) # 0)
NumberOver(x, d) ==
    IF x.t # "num" THEN x
    ELSE RoundQuotient(x.neg, DivSmall(ShiftLeft(x.m, DivideBits), d), x.e - DivideBits)
Over(x, d) == NumberOver(ToNumber(x), d)

\* Math.round(x): floor(x + 0.5), the sign kept on a zero.
RoundHalfUp(neg, m, e) ==
    IF neg
    THEN IF BitLen(m) < -e THEN <<>>
         ELSE ShiftRight(Sub(Add(m, ShiftLeft(<<1>>, -e)), Add(ShiftLeft(<<1>>, -e - 1), <<1>>)), -e)
    ELSE ShiftRight(Add(m, ShiftLeft(<<1>>, -e - 1)), -e)
NumberRound(x) ==
    IF x.t # "num" \/ x.e >= 0 THEN x
    ELSE Finite(x.neg, RoundHalfUp(x.neg, x.m, x.e), 0)
MathRound(x) == NumberRound(ToNumber(x))

\* -1, 0, 1 as the finite number x is below, equal to, above y
Magnitudes(x, y) ==
    IF BitLen(x.m) + x.e # BitLen(y.m) + y.e
    THEN (IF BitLen(x.m) + x.e < BitLen(y.m) + y.e THEN -1 ELSE 1)
    ELSE IF x.e <= y.e THEN Compare(x.m, ShiftLeft(y.m, y.e - x.e))
    ELSE Compare(ShiftLeft(x.m, x.e - y.e), y.m)
Sign(x) == IF Len(x.m) = 0 THEN 0 ELSE IF x.neg THEN -1 ELSE 1
Order(x, y) ==
    IF Sign(x) # Sign(y) THEN (IF Sign(x) < Sign(y) THEN -1 ELSE 1)
    ELSE Sign(x) * Magnitudes(x, y)

\* x < y of two numbers
NumberLess(x, y) ==
    IF x.t = "nan" \/ y.t = "nan" THEN FALSE
    ELSE IF x.t = "num" /\ y.t = "num" THEN Order(x, y) < 0
    ELSE IF x.t = y.t THEN FALSE
    ELSE x.t = "ninf" \/ y.t = "inf"

\* x < y, x > y, x <= y, x >= y
Less(x, y) == NumberLess(ToNumber(x), ToNumber(y))
Greater(x, y) == NumberLess(ToNumber(y), ToNumber(x))
NumberSame(x, y) == IF x.t = "num" /\ y.t = "num" THEN Order(x, y) = 0 ELSE x.t = y.t /\ x.t # "nan"
LessOrEqual(x, y) == Less(x, y) \/ NumberSame(ToNumber(x), ToNumber(y))
GreaterOrEqual(x, y) == Greater(x, y) \/ NumberSame(ToNumber(x), ToNumber(y))

\* x >= k / 2, x < k / 2, x > k / 2, x <= k / 2 of a number x, for a whole
\* number of halves -Far < k < Far.
HalvesGe(x, k) == x.t = "inf" \/ (x.t = "num" /\ x.twice >= k)
HalvesLt(x, k) == x.t = "ninf" \/ (x.t = "num" /\ x.twice < k)
HalvesGt(x, k) == x.t = "inf" \/ (x.t = "num" /\ (x.twice > k \/ (x.twice = k /\ x.part)))
HalvesLe(x, k) == x.t = "ninf" \/ (x.t = "num" /\ (x.twice < k \/ (x.twice = k /\ ~x.part)))

\* x >= n, x <= n, x < n, x > n for a JavaScript value x and a whole literal
\* n: false when x converts to NaN.
GeN(x, n) == HalvesGe(ToNumber(x), 2 * n)
LeN(x, n) == HalvesLe(ToNumber(x), 2 * n)
LtN(x, n) == HalvesLt(ToNumber(x), 2 * n)
GtN(x, n) == HalvesGt(ToNumber(x), 2 * n)

\* x >= n + 0.5, x <= n + 0.5, x > n + 0.5 for the literals 0.5, 1.5, 2.5.
GeH(x, n) == HalvesGe(ToNumber(x), 2 * n + 1)
LeH(x, n) == HalvesLe(ToNumber(x), 2 * n + 1)
GtH(x, n) == HalvesGt(ToNumber(x), 2 * n + 1)

\* Whether a value is truthy: not 0, NaN, null, undefined, false or "", as
\* "if (x)" and "x ? a : b" test it.  An object is truthy, and so is an
\* array, the empty one included.
Truthy(x) ==
    \/ x.t \in {"inf", "ninf", "object", "array"}
    \/ (x.t = "num" /\ Len(x.m) # 0)
    \/ (x.t = "boolean" /\ x.b)
    \/ (x.t = "string" /\ Len(x.s) # 0)

\* x ?? d
Coalesce(x, d) == IF x.t \in {"null", "undefined"} THEN d ELSE x

-----------------------------------------------------------------------------
(* Decimal literals: the double that a decimal written in a text or in the
   source stands for. *)

\* The decimal exponents from which on a number that is not 0 is infinite,
\* and below which a number of one digit before the point is 0.
InfiniteFrom == 309
ZeroBelow == -324

\* Bits of the quotient that a division by 10^k keeps beyond those of the
\* double: 2^(4 * k) exceeds 10^k.
GuardBits == 64

RoundDivided(neg, q, e) == Round(neg, q.q, e, q.inexact)

\* The double nearest to d * 10^exponent, for a natural number d of n digits.
Nearest(neg, d, n, exponent) ==
    IF Len(d) = 0 THEN Zero(neg)
    ELSE IF exponent >= InfiniteFrom THEN (IF neg THEN NegInfinity ELSE Infinity)
    ELSE IF exponent >= 0 THEN Round(neg, MulPow10(d, exponent), 0, FALSE)
    ELSE IF n + exponent < ZeroBelow THEN Zero(neg)
    ELSE RoundDivided(neg, DivPow10(ShiftLeft(d, GuardBits - 4 * exponent), -exponent),
                      4 * exponent - GuardBits)

\* The number literal n / 10^k of the source or of a JSON text (|n| < 2^31,
\* at most ten digits; 0 <= k).
Dec(n, k) == IF n < 0 THEN Nearest(TRUE, Natural(-n), 10, -k) ELSE Nearest(FALSE, Natural(n), 10, -k)

\* The two conversion factors of the source.
FeetPerMeter == Dec(328084, 5)
KnotsPerKmh == Dec(539957, 6)
-----------------------------------------------------------------------------
(* Scoring engine *)

SurfData(wh, wp, sd, wd, ws, td, th) ==
    [waveHeight |-> wh, wavePeriod |-> wp, swellDirection |-> sd,
     windDirection |-> wd, windSpeed |-> ws, tide |-> td, tideHeight |-> th]

surfRatings ==
    [ excellent |-> <<"Epic", "Firing", "Going Off", "Pumping", "Primo",
                      "Cranking", "Nuking">>,
      good      |-> <<"Fun", "Solid", "Decent", "Surfable", "Worth It",
                      "Not Bad", "Rideable">>,
      marginal  |-> <<"Marginal", "Questionable", "Sketchy", "Iffy", "Meh",
                      "Barely", "Struggling">>,
      poor      |-> <<"Flat", "Blown Out", "Junk", "Trash", "Hopeless",
                      "Closed Out", "Victory at Sea", "Ankle Biters",
                      "Lake Mode", "Check the Cam", "Stay Home",
                      "Netflix Day">> ]

\* Math.floor(Math.random() * n) for the draw u: an index 0..n-1.
RandomIndex(u, n) == (u * n) \div RandRes

getRandomRating(category, u) ==
    LET options == surfRatings[category]
    IN  options[RandomIndex(u, Len(options)) + 1]

WaveHeightPointsWide(data) ==
    IF GeN(data.waveHeight, 2) /\ LeN(data.waveHeight, 8) THEN 250
    ELSE IF GeH(data.waveHeight, 1) /\ LtN(data.waveHeight, 2) THEN 15
    ELSE 0

WaveHeightPoints(data) ==
    IF GeN(data.waveHeight, 2) /\ LeN(data.waveHeight, 8) THEN 25
    ELSE IF GeH(data.waveHeight, 1) /\ LtN(data.waveHeight, 2) THEN 15
    ELSE 0

WavePeriodPoints(data) ==
    IF GeN(data.wavePeriod, 10) THEN 25
    ELSE IF GeN(data.wavePeriod, 7) THEN 20
    ELSE IF GeN(data.wavePeriod, 5) THEN 10
    ELSE 0

SwellDirectionPoints(data) ==
    IF GeN(data.swellDirection, 45) /\ LeN(data.swellDirection, 135) THEN 20
    ELSE IF GeN(data.swellDirection, 30) /\ LeN(data.swellDirection, 150) THEN 10
    ELSE 0

WindPointsStrict(data) ==
    IF LtN(data.windSpeed, 5) THEN 15
    ELSE IF GeN(data.windDirection, 225) /\ LeN(data.windDirection, 315)
         THEN (IF LtN(data.windSpeed, 15) THEN 20 ELSE 10)
    ELSE IF LtN(data.windSpeed, 10) THEN 10
    ELSE 0

WindPoints(data) ==
    IF LtN(data.windSpeed, 5) THEN 15
    ELSE IF GeN(data.windDirection, 225) /\ LeN(data.windDirection, 315)
         THEN (IF LeN(data.windSpeed, 15) THEN 20 ELSE 10)
    ELSE IF LtN(data.windSpeed, 10) THEN 10
    ELSE 0

TidePoints(data) ==
    IF data.tide = "Mid" \/ data.tide = "Rising" \/ data.tide = "Falling" THEN 10 ELSE 0

\* The bonus of the variant carrying tide height; a SurfData built without
\* tideHeight has it undefined.
TideHeightPoints(data) ==
    IF data.tideHeight.t # "undefined"
    THEN (IF GeH(data.tideHeight, 0) /\ LeH(data.tideHeight, 2) THEN 5 ELSE 0)
    ELSE 0

ScoreOf(data) ==
    WaveHeightPoints(data) + WavePeriodPoints(data) + SwellDirectionPoints(data)
    + WindPoints(data) + TidePoints(data) + TideHeightPoints(data)

RateLoose(score, u) ==
    IF score >= 80 THEN [rating |-> "Excellent", funRating |-> getRandomRating("excellent", u)]
    ELSE IF score >= 65 THEN [rating |-> "Good", funRating |-> getRandomRating("good", u)]
    ELSE IF score > 45 THEN [rating |-> "Marginal", funRating |-> getRandomRating("marginal", u)]
    ELSE [rating |-> "Poor", funRating |-> getRandomRating("poor", u)]

Rate(score, u) ==
    IF score >= 80 THEN [rating |-> "Excellent", funRating |-> getRandomRating("excellent", u)]
    ELSE IF score >= 65 THEN [rating |-> "Good", funRating |-> getRandomRating("good", u)]
    ELSE IF score >= 45 THEN [rating |-> "Marginal", funRating |-> getRandomRating("marginal", u)]
    ELSE [rating |-> "Poor", funRating |-> getRandomRating("poor", u)]

calculateSurfabilityLucky(data, u) ==
    LET score == ScoreOf(data) + u
        r == Rate(score, u)
    IN  [score |-> score, surfable |-> score >= 45,
         rating |-> r.rating, funRating |-> r.funRating]

calculateSurfability(data, u) ==
    LET score == ScoreOf(data)
        r == Rate(score, u)
    IN  [score |-> score, surfable |-> score >= 45,
         rating |-> r.rating, funRating |-> r.funRating]

-----------------------------------------------------------------------------
(* Strings: a JavaScript string is the sequence of its UTF-16 code units.
   The String methods and parseFloat, as parseBuoyData and fetchTideData use
   them. *)

\* The characters U+0020 to U+007E, in order; a space stands in the place of
\* the grave accent, which a string of this module cannot hold.
Printable ==
    " !\"#$%&'()*+,-./0123456789:;<=>?@ABCDEFGHIJKLMNOPQRSTUVWXYZ[\\]^_ abcdefghijklmnopqrstuvwxyz{|}~"

CodeUnit(c) ==
    IF c = "\t" THEN 9
    ELSE IF c = "\n" THEN 10
    ELSE IF c = "\f" THEN 12
    ELSE IF c = "\r" THEN 13
    ELSE 31 + CHOOSE k \in 1 .. Len(Printable) : SubSeq(Printable, k, k) = c

\* The JavaScript string that a string of this module writes.
Str(s) == [i \in 1 .. Len(s) |-> CodeUnit(SubSeq(s, i, i))]

\* White space as String.prototype.trim, parseFloat and the pattern \s see it
\* (WhiteSpace and LineTerminator): tab, line feed, vertical tab, form feed,
\* carriage return, space, no-break space, ogham space mark, en quad to hair
\* space, line and paragraph separator, narrow no-break space, medium
\* mathematical space, ideographic space, byte order mark.
WhiteSpace ==
    {9, 10, 11, 12, 13, 32, 160, 5760} \cup (8192 .. 8202)
        \cup {8232, 8233, 8239, 8287, 12288, 65279}
IsSpace(c) == c \in WhiteSpace

SetMin(S) == CHOOSE i \in S : \A j \in S : i <= j
SetMax(S) == CHOOSE i \in S : \A j \in S : i >= j

\* Where the first character of s from i on that is no white space is
\* (Len(s) + 1 when there is none), and where the last one is.
RunStart(s, i) ==
    CHOOSE j \in i .. (Len(s) + 1) :
        (j > Len(s) \/ ~IsSpace(s[j])) /\ \A k \in i .. (j - 1) : IsSpace(s[k])
LastRunEnd(s) ==
    CHOOSE j \in 1 .. Len(s) : ~IsSpace(s[j]) /\ \A k \in (j + 1) .. Len(s) : IsSpace(s[k])

\* s.trim()
Trim(s) ==
    IF RunStart(s, 1) > Len(s) THEN <<>> ELSE SubSeq(s, RunStart(s, 1), LastRunEnd(s))

\* The positions of s that hold, in increasing order.
Positions(s, Holds(_)) ==
    SelectSeq([i \in 1 .. Len(s) |-> IF Holds(i) THEN i ELSE 0], LAMBDA i : i # 0)

\* The pieces of s between the positions `breaks` (in increasing order).
Pieces(s, breaks) ==
    [k \in 1 .. (Len(breaks) + 1) |->
        SubSeq(s, IF k = 1 THEN 1 ELSE breaks[k - 1] + 1,
                  IF k = Len(breaks) + 1 THEN Len(s) ELSE breaks[k] - 1)]

\* s.split('\n'): the pieces between line feeds, at least one.
LineFeed == CodeUnit("\n")
SplitLines(s) == Pieces(s, Positions(s, LAMBDA i : s[i] = LineFeed))

\* s.split(/\s+/) of a trimmed string: its maximal runs of non-space
\* characters (the one piece "" for the empty string).
Words(s, starts, ends) == [k \in 1 .. Len(starts) |-> SubSeq(s, starts[k], ends[k])]
SplitSpace(s) ==
    IF Len(s) = 0 THEN <<<<>>>>
    ELSE Words(s, Positions(s, LAMBDA i : ~IsSpace(s[i]) /\ (i = 1 \/ IsSpace(s[i - 1]))),
              Positions(s, LAMBDA i : ~IsSpace(s[i]) /\ (i = Len(s) \/ IsSpace(s[i + 1]))))

\* s.includes(sub), s.startsWith(sub)
Includes(s, sub) ==
    \E i \in 1 .. (Len(s) - Len(sub) + 1) : SubSeq(s, i, i + Len(sub) - 1) = sub

StartsWith(s, sub) == Len(s) >= Len(sub) /\ SubSeq(s, 1, Len(sub)) = sub

\* The code units of the digits 0 to 9 and of the other characters of a
\* number.
Digit0 == CodeUnit("0")
Digit9 == CodeUnit("9")
IsDigit(c) == Digit0 <= c /\ c <= Digit9
DigitValue(c) == c - Digit0
PlusSign == CodeUnit("+")
MinusSign == CodeUnit("-")
Point == CodeUnit(".")
ExponentMarks == {CodeUnit("E"), CodeUnit("e")}
InfinityLiteral == Str("Infinity")

\* The position after the run of digits that starts at i.
DigitsEnd(s, i) ==
    CHOOSE j \in i .. (Len(s) + 1) :
        (j > Len(s) \/ ~IsDigit(s[j])) /\ \A k \in i .. (j - 1) : IsDigit(s[k])

\* The natural number that the digits s[lo..hi] write.
RECURSIVE DigitsRange(_, _, _)
DigitsRange(s, lo, hi) ==
    IF lo > hi THEN <<>>
    ELSE IF lo = hi THEN Natural(DigitValue(s[lo]))
    ELSE Add(MulPow10(DigitsRange(s, lo, (lo + hi) \div 2), hi - (lo + hi) \div 2),
             DigitsRange(s, (lo + hi) \div 2 + 1, hi))
DigitsValue(digits) == DigitsRange(digits, 1, Len(digits))

\* The position after the exponent part (e or E, an optional sign, digits)
\* that starts at i; i itself when no exponent part starts there.
IsSignAt(s, a) == a <= Len(s) /\ s[a] \in {MinusSign, PlusSign}
IsMinusAt(s, a) == a <= Len(s) /\ s[a] = MinusSign
IsPointAt(s, c) == c <= Len(s) /\ s[c] = Point
ExponentDigits(s, i) == IF IsSignAt(s, i + 1) THEN i + 2 ELSE i + 1
ExponentEnd(s, i) ==
    IF i <= Len(s) /\ s[i] \in ExponentMarks
          /\ DigitsEnd(s, ExponentDigits(s, i)) > ExponentDigits(s, i)
    THEN DigitsEnd(s, ExponentDigits(s, i))
    ELSE i

\* An exponent of ten beyond which every number is 0 or infinite, however
\* many digits (fewer than this many) it has.
ExponentCap == 1000000

\* The natural number that the digits s[i..j] write, ExponentCap at most.
SmallValue(s, i, j) ==
    IF i > j THEN 0
    ELSE IF j - i >= 6 THEN ExponentCap
    ELSE ToInteger(DigitsValue(SubSeq(s, i, j)))
FirstNonZero(s, i, j) ==
    CHOOSE k \in i .. (j + 1) : (k > j \/ s[k] # Digit0) /\ \A n \in i .. (k - 1) : s[n] = Digit0

\* The exponent written at s[i..j-1] (0 when i = j).
ExponentValue(s, i, j) ==
    IF i = j THEN 0
    ELSE IF IsMinusAt(s, i + 1)
    THEN -SmallValue(s, FirstNonZero(s, ExponentDigits(s, i), j - 1), j - 1)
    ELSE SmallValue(s, FirstNonZero(s, ExponentDigits(s, i), j - 1), j - 1)

\* parseFloat(s): after leading white space, the longest prefix of s that is
\* a StrDecimalLiteral, [sign] Infinity or [sign] digits [. digits] [exponent]
\* with a digit before or after the point, as the double nearest to the
\* decimal it writes; NaN when there is none.  Below, the literal starts at
\* a, its digits at b, and the digits before the point end before c, those
\* after it before d.
DecimalDigits(s, b, c, d) ==
    SubSeq(s, b, c - 1) \o (IF IsPointAt(s, c) THEN SubSeq(s, c + 1, d - 1) ELSE <<>>)

FractionDigits(s, c, d) == IF IsPointAt(s, c) THEN d - c - 1 ELSE 0

StrUnsignedDecimalLiteral(s, neg, b, c, d) ==
    IF StartsWith(SubSeq(s, b, Len(s)), InfinityLiteral)
    THEN (IF neg THEN NegInfinity ELSE Infinity)
    ELSE IF c = b /\ (~IsPointAt(s, c) \/ d = c + 1) THEN NaN
    ELSE Nearest(neg, DigitsValue(DecimalDigits(s, b, c, d)), Len(DecimalDigits(s, b, c, d)),
                 ExponentValue(s, d, ExponentEnd(s, d)) - FractionDigits(s, c, d))

FractionEnd(s, c) == IF IsPointAt(s, c) THEN DigitsEnd(s, c + 1) ELSE c

StrDecimalLiteralAt(s, a, b) ==
    StrUnsignedDecimalLiteral(s, IsMinusAt(s, a), b, DigitsEnd(s, b),
                              FractionEnd(s, DigitsEnd(s, b)))

StrDecimalLiteral(s, a) == StrDecimalLiteralAt(s, a, IF IsSignAt(s, a) THEN a + 1 ELSE a)

ParseFloat(s) == StrDecimalLiteral(s, RunStart(s, 1))

-----------------------------------------------------------------------------
(* Buoy feed parser *)

\* The texts that parseBuoyData looks for, and the text that parseFloat reads
\* in the place of a missing element.
HeightMark == Str("WVHT")
SwellPeriodMark == Str("SwP")
AveragePeriodMark == Str("APD")
YearMark == Str("YY")
MonthMark == Str("MM")
UnitsMark == Str("yr  mo dy hr mn")
CommentMark == Str("#")
UndefinedText == Str("undefined")

\* parts[k] (k counted from 0) as parseFloat sees it: a missing element is
\* undefined, which parseFloat reads as the string "undefined".
Part(parts, k) == IF k + 1 <= Len(parts) THEN parts[k + 1] ELSE UndefinedText

\* lines.find(line => line.includes('WVHT') && (line.includes('SwP') || line.includes('APD')))
IsHeaderLine(line) ==
    Includes(line, HeightMark)
        /\ (Includes(line, SwellPeriodMark) \/ Includes(line, AveragePeriodMark))

HeaderLineFoundAlways(lines) == TRUE

HeaderLineFound(lines) == \E i \in 1 .. Len(lines) : IsHeaderLine(lines[i])

\* The predicate of the second lines.find: a line that is not blank, no comment
\* and holds none of the header and units markers.
IsDataLine(line) ==
    /\ Len(Trim(line)) # 0
    /\ ~StartsWith(line, CommentMark)
    /\ ~Includes(line, YearMark)
    /\ ~Includes(line, MonthMark)
    /\ ~Includes(line, HeightMark)
    /\ ~Includes(line, UnitsMark)

\* The index of the data line lines.find returns, 0 when it returns undefined.
FirstDataLine(lines, found) == IF found = {} THEN 0 ELSE SetMin(found)
DataLineIndex(lines) == FirstDataLine(lines, {i \in 1 .. Len(lines) : IsDataLine(lines[i])})

\* isNaN(swellPeriod) || swellPeriod < 2 || swellPeriod > 30
PeriodUnusable(p) == IsNaN(p) \/ LtN(p, 2) \/ GtN(p, 30)

OrElse(period, parts, k) == IF PeriodUnusable(period) THEN ParseFloat(Part(parts, k)) ELSE period

ChoosePeriodAverageFirst(parts) == OrElse(ParseFloat(Part(parts, 13)), parts, 7)

\* let wavePeriod = swellPeriod; if (...) wavePeriod = parseFloat(parts[13])
ChoosePeriod(parts) == OrElse(ParseFloat(Part(parts, 7)), parts, 13)

HeightOutOfRangeLow(waveHeightMeters) == LtN(waveHeightMeters, 0)

\* waveHeightMeters < 0 || waveHeightMeters > 20
HeightOutOfRange(waveHeightMeters) == LtN(waveHeightMeters, 0) \/ GtN(waveHeightMeters, 20)

TooFewLinesNever(lines) == FALSE

\* lines.length < 3
TooFewLines(lines) == Len(lines) < 3

\* From "Validate the data" to the return.
Validated(waveHeightMeters, wavePeriod, swellDirection) ==
    IF IsNaN(waveHeightMeters) \/ IsNaN(wavePeriod) \/ IsNaN(swellDirection) THEN Null
    ELSE IF LtN(wavePeriod, 2) \/ GtN(wavePeriod, 30) THEN Null
    ELSE IF HeightOutOfRange(waveHeightMeters) THEN Null
    ELSE [waveHeight |-> Times(waveHeightMeters, FeetPerMeter),
          swellDirection |-> swellDirection,
          wavePeriod |-> wavePeriod]

\* The reading of the columns of one data line, from "parts.length < 8" on.
ParseParts(parts) ==
    IF Len(parts) < 8 THEN Null
    ELSE Validated(ParseFloat(Part(parts, 5)), ChoosePeriod(parts), ParseFloat(Part(parts, 14)))

\* const parts = dataLine.trim().split(/\s+/)
ParseDataLine(dataLine) == ParseParts(SplitSpace(Trim(dataLine)))

ParseLines(lines, at) ==
    IF TooFewLines(lines) THEN Null
    ELSE IF ~HeaderLineFound(lines) THEN Null
    ELSE IF at = 0 THEN Null
    ELSE ParseDataLine(lines[at])

\* parseBuoyData(buoyText).  Every step of the try block is total on strings,
\* so the catch clause (which returns null as well) is never entered.
parseBuoyData(text) ==
    ParseLines(SplitLines(Trim(text)), DataLineIndex(SplitLines(Trim(text))))

-----------------------------------------------------------------------------
(* Forecast window summarizer *)

\* .slice(0, 24): the hours looked at.
HorizonHours == 24

\* A JavaScript array argument; a missing argument is Null or Undefined.
Array(items) == [t |-> "array", items |-> items]

flatMessages ==
    <<"Flat spell continues...", "Time to practice your pop-ups on land",
      "Great day for a beach walk", "Maybe check the bay?",
      "Longboard day if you're desperate", "Netflix has some good surf movies",
      "Perfect time to wax your board">>

NoForecastsArrayOnly(hourlyForecasts) == hourlyForecasts.t # "array"

\* !hourlyForecasts || hourlyForecasts.length === 0
NoForecasts(hourlyForecasts) ==
    hourlyForecasts.t # "array" \/ Len(hourlyForecasts.items) = 0

\* hourlyForecasts.filter(f => new Date(f.time) >= now).slice(0, 24); times
\* and the clock are counted in hours.
FutureForecasts(items, now) ==
    LET future == SelectSeq(items, LAMBDA f : f.time >= now)
    IN  SubSeq(future, 1, IF Len(future) < HorizonHours THEN Len(future) ELSE HorizonHours)

\* The SurfData built for one forecast hour (without a tideHeight).
HourSurfData(hourData, tide) ==
    SurfData(Times(hourData.wave_height, FeetPerMeter), hourData.wave_period,
             hourData.swell_direction, hourData.wind_direction,
             Times(hourData.wind_speed, KnotsPerKmh), tide, Undefined)

ScanStart ==
    [goodStreaks |-> <<>>, marginalStreaks |-> <<>>, currentGoodStreak |-> 0,
     currentMarginalStreak |-> 0, totalSurfableHours |-> 0]

\* A loop body that leaves the other streak open.
ScanStepLeavesOpen(st, score) ==
    IF score >= 65 THEN
        [st EXCEPT !.currentGoodStreak = @ + 1, !.totalSurfableHours = @ + 1]
    ELSE IF score >= 45 THEN
        [st EXCEPT !.currentMarginalStreak = @ + 1, !.totalSurfableHours = @ + 1]
    ELSE
        [st EXCEPT !.goodStreaks =
                       IF st.currentGoodStreak > 0
                       THEN Append(@, st.currentGoodStreak) ELSE @,
                   !.currentGoodStreak = 0,
                   !.marginalStreaks =
                       IF st.currentMarginalStreak > 0
                       THEN Append(@, st.currentMarginalStreak) ELSE @,
                   !.currentMarginalStreak = 0]

\* One turn of the loop, for an hour of the given score.
ScanStep(st, score) ==
    IF score >= 65 THEN
        [st EXCEPT !.currentGoodStreak = @ + 1,
                   !.marginalStreaks =
                       IF st.currentMarginalStreak > 0
                       THEN Append(@, st.currentMarginalStreak) ELSE @,
                   !.currentMarginalStreak = 0,
                   !.totalSurfableHours = @ + 1]
    ELSE IF score >= 45 THEN
        [st EXCEPT !.currentMarginalStreak = @ + 1,
                   !.goodStreaks =
                       IF st.currentGoodStreak > 0
                       THEN Append(@, st.currentGoodStreak) ELSE @,
                   !.currentGoodStreak = 0,
                   !.totalSurfableHours = @ + 1]
    ELSE
        [st EXCEPT !.goodStreaks =
                       IF st.currentGoodStreak > 0
                       THEN Append(@, st.currentGoodStreak) ELSE @,
                   !.currentGoodStreak = 0,
                   !.marginalStreaks =
                       IF st.currentMarginalStreak > 0
                       THEN Append(@, st.currentMarginalStreak) ELSE @,
                   !.currentMarginalStreak = 0]

\* The loop over futureForecasts[0 .. n-1].
RECURSIVE Scan(_, _, _, _)
Scan(future, tide, u, n) ==
    IF n = 0 THEN ScanStart
    ELSE ScanStep(Scan(future, tide, u, n - 1),
                  calculateSurfability(HourSurfData(future[n], tide), u).score)

CloseStreaksDropped(st) == st

\* "Add final streaks"
CloseStreaks(st) ==
    [st EXCEPT !.goodStreaks =
                   IF st.currentGoodStreak > 0
                   THEN Append(@, st.currentGoodStreak) ELSE @,
               !.marginalStreaks =
                   IF st.currentMarginalStreak > 0
                   THEN Append(@, st.currentMarginalStreak) ELSE @]

\* The streak recorded first in place of the longest.
MaxOfFirst(streaks) == IF Len(streaks) > 0 THEN streaks[1] ELSE 0

\* streaks.length > 0 ? Math.max(...streaks) : 0
MaxOf(streaks) ==
    IF Len(streaks) > 0 THEN SetMax({streaks[i] : i \in 1 .. Len(streaks)}) ELSE 0

DurationMessageLate(maxGoodStreak, maxMarginalStreak, totalSurfableHours, u) ==
    IF maxGoodStreak > 8 THEN "Good surf for most of the day!"
    ELSE IF maxGoodStreak >= 6
         THEN "Good surf for " \o ToString(maxGoodStreak) \o " solid hours!"
    ELSE IF maxGoodStreak >= 3
         THEN "Good surf for about " \o ToString(maxGoodStreak) \o " hours"
    ELSE IF maxGoodStreak >= 1
         THEN "Brief good surf window (~" \o ToString(maxGoodStreak) \o "hr)"
    ELSE IF maxMarginalStreak >= 8 THEN "Marginal conditions for most of the day"
    ELSE IF maxMarginalStreak >= 4
         THEN "Marginal conditions for " \o ToString(maxMarginalStreak) \o " hours"
    ELSE IF maxMarginalStreak >= 2
         THEN "Sketchy conditions for " \o ToString(maxMarginalStreak) \o " hours"
    ELSE IF totalSurfableHours >= 1 THEN "Brief surfable windows expected"
    ELSE flatMessages[RandomIndex(u, Len(flatMessages)) + 1]

\* The message table; u is the draw of the flat branch.
DurationMessage(maxGoodStreak, maxMarginalStreak, totalSurfableHours, u) ==
    IF maxGoodStreak >= 8 THEN "Good surf for most of the day!"
    ELSE IF maxGoodStreak >= 6
         THEN "Good surf for " \o ToString(maxGoodStreak) \o " solid hours!"
    ELSE IF maxGoodStreak >= 3
         THEN "Good surf for about " \o ToString(maxGoodStreak) \o " hours"
    ELSE IF maxGoodStreak >= 1
         THEN "Brief good surf window (~" \o ToString(maxGoodStreak) \o "hr)"
    ELSE IF maxMarginalStreak >= 8 THEN "Marginal conditions for most of the day"
    ELSE IF maxMarginalStreak >= 4
         THEN "Marginal conditions for " \o ToString(maxMarginalStreak) \o " hours"
    ELSE IF maxMarginalStreak >= 2
         THEN "Sketchy conditions for " \o ToString(maxMarginalStreak) \o " hours"
    ELSE IF totalSurfableHours >= 1 THEN "Brief surfable windows expected"
    ELSE flatMessages[RandomIndex(u, Len(flatMessages)) + 1]

\* Whether the table ends in its flat branch, which draws once.
IsFlat(maxGoodStreak, maxMarginalStreak, totalSurfableHours) ==
    maxGoodStreak < 1 /\ maxMarginalStreak < 2 /\ totalSurfableHours < 1

\* getConditionsDuration(hourlyForecasts, tide) with the clock at now.  u is
\* the value of Math.random().  Beside the message the result counts the calls
\* of calculateSurfability (scored) and of Math.random (draws: one per scored
\* hour for its label, one for a flat message), and keeps the two maxima the
\* message is chosen from.
getConditionsDuration(hourlyForecasts, tide, now, u) ==
    IF NoForecasts(hourlyForecasts)
    THEN [message |-> "No forecast data available.", scored |-> 0, draws |-> 0,
          maxGoodStreak |-> 0, maxMarginalStreak |-> 0]
    ELSE LET futureForecasts == FutureForecasts(hourlyForecasts.items, now)
             st == CloseStreaks(Scan(futureForecasts, tide, u, Len(futureForecasts)))
             maxGoodStreak == MaxOf(st.goodStreaks)
             maxMarginalStreak == MaxOf(st.marginalStreaks)
         IN  [message |-> DurationMessage(maxGoodStreak, maxMarginalStreak,
                                          st.totalSurfableHours, u),
              scored |-> Len(futureForecasts),
              draws |-> Len(futureForecasts)
                        + IF IsFlat(maxGoodStreak, maxMarginalStreak,
                                    st.totalSurfableHours) THEN 1 ELSE 0,
              maxGoodStreak |-> maxGoodStreak,
              maxMarginalStreak |-> maxMarginalStreak]

-----------------------------------------------------------------------------
(* Tide estimate from the time of day *)

getSimpleTideStateEarlyLow(hour) ==
    LET tidePhase == hour % 12
    IN  IF tidePhase < 2 \/ tidePhase > 9 THEN "Low"
        ELSE IF tidePhase >= 5 /\ tidePhase <= 7 THEN "High"
        ELSE IF tidePhase < 5 THEN "Rising"
        ELSE "Falling"

\* getSimpleTideState(), hour being new Date().getHours().
getSimpleTideState(hour) ==
    LET tidePhase == hour % 12
    IN  IF tidePhase < 2 \/ tidePhase > 10 THEN "Low"
        ELSE IF tidePhase >= 5 /\ tidePhase <= 7 THEN "High"
        ELSE IF tidePhase < 5 THEN "Rising"
        ELSE "Falling"

-----------------------------------------------------------------------------
(* Tide data from the NOAA station *)

\* The outcome of one fetch: the promise rejects (network error, timeout), or
\* resolves to a response that is not ok, or to an ok response whose body is
\* not JSON or is the JSON value given.
Rejected == [kind |-> "rejected"]
NotOk == [kind |-> "response", ok |-> FALSE]
OkUnparseable == [kind |-> "response", ok |-> TRUE, json |-> FALSE]
OkJson(body) == [kind |-> "response", ok |-> TRUE, json |-> TRUE, body |-> body]

\* A JSON object without the field looked for, e.g. {error: ...}.
NoField == [has |-> FALSE, items |-> <<>>]
Field(items) == [has |-> TRUE, items |-> items]

\* The number literals of fetchTideData.
InitialHeight == Zero(FALSE)
DefaultHeight == Dec(15, 1)
Quarter == Dec(25, 2)

\* The fallback of the catch block.
DefaultTideData ==
    [currentHeight |-> DefaultHeight, state |-> "Mid", nextHigh |-> Null, nextLow |-> Null]

\* currentHeight after "Parse current water level".
CurrentHeight(currentRes) ==
    IF currentRes.ok /\ currentRes.body.has /\ Len(currentRes.body.items) > 0
    THEN ParseFloat(currentRes.body.items[1].v)
    ELSE InitialHeight

\* One turn of the loop over predictionsData.predictions.
TakePrediction(next, prediction, now) ==
    IF prediction.t > now THEN
        IF prediction.type = "H" /\ next.nextHigh = Null
        THEN [next EXCEPT !.nextHigh =
                  [time |-> prediction.t, height |-> ParseFloat(prediction.v)]]
        ELSE IF prediction.type = "L" /\ next.nextLow = Null
        THEN [next EXCEPT !.nextLow =
                  [time |-> prediction.t, height |-> ParseFloat(prediction.v)]]
        ELSE next
    ELSE next

RECURSIVE ScanPredictions(_, _, _)
ScanPredictions(predictions, n, now) ==
    IF n = 0 THEN [nextHigh |-> Null, nextLow |-> Null]
    ELSE TakePrediction(ScanPredictions(predictions, n - 1, now), predictions[n], now)

\* nextHigh and nextLow after "Parse tide predictions".
NextTides(predictionsRes, now) ==
    IF predictionsRes.ok /\ predictionsRes.body.has /\ Len(predictionsRes.body.items) > 0
    THEN ScanPredictions(predictionsRes.body.items, Len(predictionsRes.body.items), now)
    ELSE [nextHigh |-> Null, nextLow |-> Null]

\* const range = Math.abs(nextHigh.height - nextLow.height)
TideRange(high, low) == MathAbs(Minus(high, low))

\* const midPoint = (nextHigh.height + nextLow.height) / 2
MidPoint(high, low) == Over(Plus(high, low), 2)

NearMidPointInclusive(currentHeight, high, low) ==
    LessOrEqual(MathAbs(Minus(currentHeight, MidPoint(high, low))),
                Times(TideRange(high, low), Quarter))

\* Math.abs(currentHeight - midPoint) < range * 0.25, each operation giving
\* the double nearest to its result: false as soon as one of the three
\* heights is NaN.
NearMidPoint(currentHeight, high, low) ==
    Less(MathAbs(Minus(currentHeight, MidPoint(high, low))),
         Times(TideRange(high, low), Quarter))

\* "Determine tide state"
TideStateOf(currentHeight, nextHigh, nextLow) ==
    IF nextHigh # Null /\ nextLow # Null THEN
        IF NearMidPoint(currentHeight, nextHigh.height, nextLow.height) THEN "Mid"
        ELSE IF nextHigh.time < nextLow.time
             THEN (IF GtH(currentHeight, 1) THEN "High Rising" ELSE "Rising")
             ELSE (IF LtN(currentHeight, 1) THEN "Low Falling" ELSE "Falling")
    ELSE "Unknown"

\* The TideData the try block returns, from "Parse tide predictions" on, for
\* the currentHeight read before.
TideFrom(currentHeight, next) ==
    [currentHeight |-> currentHeight,
     state |-> TideStateOf(currentHeight, next.nextHigh, next.nextLow),
     nextHigh |-> next.nextHigh,
     nextLow |-> next.nextLow]
TideResult(currentHeight, predictionsRes, now) ==
    TideFrom(currentHeight, NextTides(predictionsRes, now))

\* Where fetchTideData, suspended at the await `position`, goes on to when
\* that await ends: the next await, or `exit` when it returns (from the try
\* block, or from the catch block when the await throws).
TidePosition(position, currentRes, predictionsRes, exit) ==
    CASE position = "tide" ->
             IF currentRes.kind = "rejected" \/ predictionsRes.kind = "rejected" THEN exit
             ELSE IF currentRes.ok THEN "tideLevel"
             ELSE IF predictionsRes.ok THEN "tidePredictions"
             ELSE exit
      [] position = "tideLevel" ->
             IF ~currentRes.json THEN exit
             ELSE IF predictionsRes.ok THEN "tidePredictions"
             ELSE exit
      [] OTHER -> exit

-----------------------------------------------------------------------------
(* GET /surfability *)

\* arr[i] for a 0-based index: undefined past the end.
At(arr, i) == IF i + 1 <= Len(arr) THEN arr[i + 1] ELSE Undefined

\* marineJson?.hourly?.[field]?.[i]
MarineAt(marine, field, i) ==
    IF marine = Null THEN Undefined
    ELSE IF ~marine.hasHourly THEN Undefined
    ELSE At(marine.hourly[field], i)

\* The number literals of the handler.
Ten == Whole(10)
DefaultWaveHeight == Dec(15, 1)
DefaultWavePeriod == Whole(6)
DefaultSwellDirection == Whole(90)

\* Math.round(x * 10) / 10
RoundTenths(x) == Over(MathRound(Times(x, Ten)), 10)

\* Math.round(x)
RoundUnits(x) == MathRound(x)

\* waveHeight, wavePeriod, swellDirection: "Use buoy data if available,
\* otherwise try marine API, then use fallback values"
CurrentWaveHeight(buoyData, marine) ==
    IF buoyData # Null THEN buoyData.waveHeight
    ELSE IF Truthy(MarineAt(marine, "wave_height", 0))
    THEN Times(MarineAt(marine, "wave_height", 0), FeetPerMeter)
    ELSE DefaultWaveHeight
CurrentWavePeriod(buoyData, marine) ==
    IF buoyData # Null THEN buoyData.wavePeriod
    ELSE Coalesce(MarineAt(marine, "wave_period", 0), DefaultWavePeriod)
CurrentSwellDirection(buoyData, marine) ==
    IF buoyData # Null THEN buoyData.swellDirection
    ELSE Coalesce(MarineAt(marine, "swell_wave_direction", 0), DefaultSwellDirection)

currentSurfData(tide, buoyData, marine, weatherJson) ==
    SurfData(CurrentWaveHeight(buoyData, marine), CurrentWavePeriod(buoyData, marine),
             CurrentSwellDirection(buoyData, marine),
             weatherJson.current.wind_direction_10m,
             Times(weatherJson.current.wind_speed_10m, KnotsPerKmh),
             tide.state, tide.currentHeight)

\* "Parse hourly forecast - combine available data"
hourlyForecasts(marine, weatherJson) ==
    [k \in 1 .. Len(weatherJson.hourly.time) |->
        [time |-> weatherJson.hourly.time[k],
         wave_height |-> Coalesce(MarineAt(marine, "wave_height", k - 1), DefaultWaveHeight),
         wave_period |-> Coalesce(MarineAt(marine, "wave_period", k - 1), DefaultWavePeriod),
         swell_direction |->
             Coalesce(MarineAt(marine, "swell_wave_direction", k - 1), DefaultSwellDirection),
         wind_speed |-> At(weatherJson.hourly.wind_speed_10m, k - 1),
         wind_direction |-> At(weatherJson.hourly.wind_direction_10m, k - 1)]]

DataSource(buoyData, marine) ==
    IF buoyData # Null THEN "NOAA Buoy + NOAA Tides + Weather API"
    ELSE IF marine # Null /\ marine.hasHourly THEN "Marine + NOAA Tides + Weather API"
    ELSE "Weather API + NOAA Tides + defaults"

\* data_source in the handler that takes the tide from the time of day.
FirstDataSource(buoyData, marine) ==
    IF buoyData # Null THEN "NOAA Buoy + Weather API"
    ELSE IF marine # Null /\ marine.hasHourly THEN "Marine + Weather API"
    ELSE "Weather API + defaults"

\* The body of the catch block of the handler.
ErrorResponse == [status |-> 500, error |-> "Error fetching surf data"]

\* The details block of the report.
Details(data, tide, buoyData, marine, rating) ==
    [wave_height_ft |-> RoundTenths(data.waveHeight),
     wave_period_sec |-> RoundTenths(data.wavePeriod),
     swell_direction_deg |-> RoundUnits(data.swellDirection),
     wind_direction_deg |-> RoundUnits(data.windDirection),
     wind_speed_kts |-> RoundTenths(data.windSpeed),
     tide_state |-> tide.state,
     tide_height_ft |-> RoundTenths(tide.currentHeight),
     data_source |-> DataSource(buoyData, marine),
     traditional_rating |-> rating]

ReportOf(data, r, conditionsDuration, tide, buoyData, marine) ==
    [status |-> 200,
     surfable |-> r.surfable,
     rating |-> r.funRating,
     score |-> r.score,
     goodSurfDuration |-> conditionsDuration.message,
     details |-> Details(data, tide, buoyData, marine, r.rating)]

\* The report sent by res.json: the fields that come from the surf data (the
\* location, timestamp, weather and tides blocks are left out).  u is the
\* Math.random() of the rating's label, v that of the flat message.
Report(data, forecast, tide, buoyData, marine, now, u, v) ==
    ReportOf(data, calculateSurfability(data, u),
             getConditionsDuration(Array(forecast), tide.state, now, v),
             tide, buoyData, marine)

\* The details block and the report of the handler that takes the tide from
\* the time of day: no tide height, and its own names of the sources.
FirstDetails(data, tide, buoyData, marine, rating) ==
    [wave_height_ft |-> RoundTenths(data.waveHeight),
     wave_period_sec |-> RoundTenths(data.wavePeriod),
     swell_direction_deg |-> RoundUnits(data.swellDirection),
     wind_direction_deg |-> RoundUnits(data.windDirection),
     wind_speed_kts |-> RoundTenths(data.windSpeed),
     tide_state |-> tide,
     data_source |-> FirstDataSource(buoyData, marine),
     traditional_rating |-> rating]

FirstReportOf(data, r, conditionsDuration, tide, buoyData, marine) ==
    [status |-> 200,
     surfable |-> r.surfable,
     rating |-> r.funRating,
     score |-> r.score,
     goodSurfDuration |-> conditionsDuration.message,
     details |-> FirstDetails(data, tide, buoyData, marine, r.rating)]

FirstReport(data, forecast, tide, buoyData, marine, now, u, v) ==
    FirstReportOf(data, calculateSurfability(data, u),
                  getConditionsDuration(Array(forecast), tide, now, v),
                  tide, buoyData, marine)

\* What the handler finds in the body of the weather reply.  A block the body
\* lacks is read as undefined, and reading a field of undefined throws:
\* weatherJson.current.temperature_2m without the current block,
\* weatherJson.hourly.time.map without the hourly block, and
\* weatherJson.hourly.wind_speed_10m[i] for the first hour without the hourly
\* wind arrays.
NoCurrent(weatherRes) == ~weatherRes.json \/ "current" \in weatherRes.body.lacks
NoHourly(weatherRes) ==
    \/ "hourly" \in weatherRes.body.lacks
    \/ ("winds" \in weatherRes.body.lacks /\ Len(weatherRes.body.hourly.time) > 0)

-----------------------------------------------------------------------------
(* The scoring engine applied to one reading *)

Tenths(S) == {Dec(n, 1) : n \in S}

\* Products of a height in metres and 3.28084 that lie next to the limits
\* 1.5, 2 and 8.
ConvertedHeights ==
    {Times(Dec(n, 8), FeetPerMeter) : n \in {45719999, 60959999, 243839999}}

WaveHeightVals == Tenths({14, 15, 19, 20, 80, 81}) \cup ConvertedHeights
WavePeriodVals == Tenths({49, 50, 69, 70, 99, 100})
SwellDirectionVals == Tenths({299, 300, 449, 450, 1350, 1351, 1500, 1501})
WindSpeedVals == Tenths({49, 50, 99, 100, 150, 151})
WindDirectionVals == Tenths({2249, 2250, 3150, 3151})
TideVals == {"Mid", "Rising", "Falling", "Low", "High Rising"}
TideHeightVals == {Undefined} \cup Tenths({4, 5, 25, 26})

\* The two readings of the specification's examples.
Example95 ==
    SurfData(Whole(5), Whole(11), Whole(90), Whole(0), Whole(3), "Mid", Undefined)
Example0 ==
    SurfData(Dec(5, 1), Whole(3), Whole(0), Whole(0), Whole(20), "Low", Undefined)

\* Every threshold of the wave rules, on both sides, under a weak and a strong
\* setting of wind and tide.
WaveReadings ==
    { SurfData(wh, wp, sd, Whole(225), ws, td, th) :
        wh \in WaveHeightVals, wp \in WavePeriodVals, sd \in SwellDirectionVals,
        ws \in {Dec(49, 1), Whole(15)}, td \in {"Mid", "Low"},
        th \in {Undefined, Dec(5, 1)} }

\* Every threshold of the wind and tide rules, on both sides, under a weak and
\* a strong setting of each wave rule.
WindTideReadings ==
    { SurfData(wh, wp, sd, wd, ws, td, th) :
        wh \in {Dec(14, 1), Whole(2)}, wp \in {Dec(49, 1), Whole(10)},
        sd \in {Dec(299, 1), Whole(45)},
        wd \in WindDirectionVals, ws \in WindSpeedVals, td \in TideVals,
        th \in TideHeightVals }

\* Readings with a field that is no number: null (which the weather API may
\* send for a current value) compares as 0, NaN compares false.
NumericFields == {"waveHeight", "wavePeriod", "swellDirection", "windDirection", "windSpeed"}
LooseReadings ==
    { [base EXCEPT ![f] = x] :
        base \in {Example95, Example0}, f \in NumericFields, x \in {Null, NaN} }

Readings == WaveReadings \cup WindTideReadings \cup LooseReadings \cup {Example95, Example0}

Draws == 0 .. (RandRes - 1)

NoResult == [score |-> -1, surfable |-> FALSE, rating |-> "", funRating |-> ""]
NoFeed == [head |-> <<>>, rows |-> <<>>, sep |-> <<>>]
NoOutput == [kind |-> "none"]
NoForecastArg == [t |-> "none"]
NoDuration == [message |-> "", scored |-> 0, draws |-> 0]

\* The variables of the operations that a specification does not exercise.
ScoreIdle == reading = Undefined /\ result = NoResult
TideIdle == clockHour = 0 /\ tideAt = -1 /\ tideState = ""
NoReplies == [current |-> [kind |-> "none"], predictions |-> [kind |-> "none"]]
NoTideData == [state |-> ""]
NoLocals == [currentHeight |-> Undefined]
TideFetchIdle ==
    tideReplies = NoReplies /\ tideNow = 0 /\ tideLocals = NoLocals /\ tideData = NoTideData
NoCalls == [made |-> FALSE, scored |-> FALSE]
NotCalled == [at |-> "none"]
NoPromises ==
    [getMarineData |-> NotCalled, getWeatherData |-> NotCalled, getBuoyData |-> NotCalled,
     getTideData |-> NotCalled]
\* The caches as "private cache = new SimpleCache(...)" leaves them.
NoCaches == [WeatherService |-> <<>>, BuoyService |-> <<>>, TideService |-> <<>>]
NoRequest ==
    /\ replies = [kind |-> "none"]
    /\ marineData = Null
    /\ calls = NoCalls
    /\ responses = <<>>
HandlerIdle == NoRequest /\ route = "" /\ settled = NoPromises /\ caches = NoCaches
NoLimits == [owner |-> "", maxSize |-> 0, ttl |-> 0]
NoOperation == [op |-> "none"]
CacheIdle ==
    store = <<>> /\ clock = 0 /\ limits = NoLimits /\ returned = NoOperation /\ flights = <<>>
RestIdle == TideIdle /\ TideFetchIdle /\ HandlerIdle /\ CacheIdle
BuoyIdle == buoyFeed = NoFeed /\ buoyText = <<>> /\ buoyOut = NoOutput
DurationIdle ==
    forecasts = NoForecastArg /\ nowT = 0 /\ tideArg = "" /\ duration = NoDuration

ScoreInit ==
    /\ pc = "ready"
    /\ reading \in Readings
    /\ result = NoResult
    /\ BuoyIdle
    /\ DurationIdle
    /\ RestIdle

Score ==
    /\ pc = "ready"
    /\ \E u \in Draws : result' = calculateSurfability(reading, u)
    /\ pc' = "done"
    /\ UNCHANGED <<reading, buoyVars, durationVars, restVars>>

ScoreNext == Score

SpecScore == ScoreInit /\ [][ScoreNext]_vars

-----------------------------------------------------------------------------
(* The buoy parser applied to one feed *)

HeaderLine == Str("#YY  MM DD hh mm WVHT  SwH  SwP  WWH  WWP SwD WWD  STEEPNESS  APD MWD")
UnitsLine == Str("#yr  mo dy hr mn    m    m  sec    m  sec  -  degT     -      sec degT")
\* The header of the station's meteorological feed: WVHT and APD, no SwP.
MetHeaderLine ==
    Str("#YY  MM DD hh mm WDIR WSPD GST  WVHT   DPD   APD MWD   PRES  ATMP  WTMP  DEWP  VIS  TIDE")
\* Header lines that lack the height marker, or both period markers.
NoHeightHeaderLine == Str("#YY  MM DD hh mm  SwH  SwP  APD MWD")
NoPeriodHeaderLine == Str("#YY  MM DD hh mm WVHT  SwH  MWD")

\* A row of the .spec layout of the source comment:
\* 0-4 date, 5 WVHT, 6 SwH, 7 SwP, 8 WWH, 9 WWP, 10 SwD, 11 WWD, 12 STEEPNESS,
\* 13 APD, 14 MWD.
RowDate == <<Str("2025"), Str("06"), Str("13"), Str("20"), Str("26")>>
RowSwellHeight == Str("0.2")
RowWindWaves == <<Str("0.7"), Str("8.3"), Str("E"), Str("E"), Str("N/A")>>
Row15(wvht, swp, apd, mwd) ==
    RowDate \o <<wvht, RowSwellHeight, swp>> \o RowWindWaves \o <<apd, mwd>>

\* The same observation in a layout of n >= 10 columns whose last two columns
\* are APD and MWD; n < 10 cuts the .spec row after n columns.
RowOfWidth(n, wvht, swp, apd, mwd) ==
    IF n < 10 THEN SubSeq(Row15(wvht, swp, apd, mwd), 1, n)
    ELSE RowDate \o <<wvht, RowSwellHeight, swp>>
         \o [i \in 1 .. (n - 10) |-> RowWindWaves[1]] \o <<apd, mwd>>

RowWidths == {7, 8, 13, 14, 16}

\* Column texts on both sides of every limit, one and two decimals deep, with
\* eight decimals and eight digits, in exponent notation, infinite, and the
\* markers of a missing value.
MissingMarker == Str("MM")
NotAvailable == Str("N/A")
InfinityText == Str("Infinity")
UsualHeight == Str("0.8")
UsualSwellPeriod == Str("10.5")
UsualAveragePeriod == Str("4.1")
UsualDirection == Str("98")
HeightTokens ==
    {UsualHeight, Str("1.0"), Str("0.0"), Str("20.0"), Str("20.1"), Str("20.05"),
     Str("-0.1"), Str("-0.05"), Str("1.25"), Str("2e0"), Str("0.60959999"),
     InfinityText, MissingMarker, NotAvailable}
SwellPeriodTokens ==
    {UsualSwellPeriod, Str("2.0"), Str("1.9"), Str("1.95"), Str("30.0"), Str("30.1"),
     Str("30.05"), MissingMarker, NotAvailable}
AveragePeriodTokens ==
    {UsualAveragePeriod, Str("2.0"), Str("1.9"), Str("30.0"), Str("30.05"), NotAvailable}
DirectionTokens ==
    {UsualDirection, Str("0"), Str("99999999"), InfinityText, MissingMarker, NotAvailable}

\* An older observation, listed after the most recent one.
OlderRow == Row15(Str("1.2"), Str("9.1"), Str("5.0"), Str("110"))
UsualRow == Row15(UsualHeight, UsualSwellPeriod, UsualAveragePeriod, UsualDirection)

RECURSIVE Join(_, _)
Join(strs, sep) ==
    IF Len(strs) = 0 THEN <<>>
    ELSE IF Len(strs) = 1 THEN strs[1]
    ELSE strs[1] \o sep \o Join(Tail(strs), sep)

\* The text of a feed: its lines, each ended by a line feed; the columns of a
\* row are parted by the feed's separator.
RowLines(feed) == [i \in 1 .. Len(feed.rows) |-> Join(feed.rows[i], feed.sep)]
Render(feed) == Join(feed.head \o RowLines(feed), <<LineFeed>>) \o <<LineFeed>>

TwoSpaces == Str("  ")
Feed(head, rows) == [head |-> head, rows |-> rows, sep |-> TwoSpaces]
FeedParted(head, rows, sep) == [head |-> head, rows |-> rows, sep |-> sep]

\* What parts columns other than spaces: every white space character but the
\* line feed; a row of two empty columns is a line that holds the separator
\* and nothing else.
Separators == {<<c>> : c \in WhiteSpace \ {LineFeed}}

BuoyFeeds ==
    \* the .spec layout, every combination of the four columns read
    { Feed(<<HeaderLine, UnitsLine>>, <<Row15(w, s, a, m)>> \o older) :
        w \in HeightTokens, s \in SwellPeriodTokens, a \in AveragePeriodTokens,
        m \in DirectionTokens, older \in {<<>>, <<OlderRow>>} }
    \* rows of other widths
    \cup { Feed(<<HeaderLine, UnitsLine>>,
                <<RowOfWidth(n, w, s, UsualAveragePeriod, UsualDirection)>>) :
             n \in RowWidths, w \in {UsualHeight, NotAvailable},
             s \in {UsualSwellPeriod, NotAvailable} }
    \* other headers, no header, a header and nothing else, a blank line
    \cup { Feed(head, rows) :
             head \in { <<HeaderLine, UnitsLine>>, <<MetHeaderLine, UnitsLine>>,
                        <<NoHeightHeaderLine, UnitsLine>>,
                        <<NoPeriodHeaderLine, UnitsLine>>, <<UnitsLine, UnitsLine>>,
                        <<HeaderLine>>, <<>> },
             rows \in { <<>>, <<UsualRow>>, <<UsualRow, OlderRow>>, <<<<>>, UsualRow>> } }
    \* columns parted by other white space, after a line of nothing else
    \cup { FeedParted(<<HeaderLine, UnitsLine>>,
                      blank \o <<Row15(w, UsualSwellPeriod, UsualAveragePeriod,
                                       UsualDirection)>>, sep) :
             sep \in Separators, blank \in {<<>>, <<<< <<>>, <<>> >>>>},
             w \in {UsualHeight, NotAvailable} }

BuoyInit ==
    /\ pc = "ready"
    /\ buoyFeed \in BuoyFeeds
    /\ buoyText = Render(buoyFeed)
    /\ buoyOut = NoOutput
    /\ ScoreIdle
    /\ DurationIdle
    /\ RestIdle

ParseBuoy ==
    /\ pc = "ready"
    /\ buoyOut' = parseBuoyData(buoyText)
    /\ pc' = "done"
    /\ UNCHANGED <<buoyFeed, buoyText, scoreVars, durationVars, restVars>>

BuoyNext == ParseBuoy

SpecBuoy == BuoyInit /\ [][BuoyNext]_vars

-----------------------------------------------------------------------------
(* The summarizer applied to one forecast array *)

\* Hours as the marine and weather APIs report them (metres, km/h), by kind.
\* With tide "Low" they score 85, 55 and 0; with "Mid" 95, 65 and 10.
HourKinds == {"clean", "fair", "flat"}

CleanHour ==
    [wave_height |-> Whole(1), wave_period |-> Whole(11), swell_direction |-> Whole(90),
     wind_speed |-> Whole(5), wind_direction |-> Whole(270)]
FairHour ==
    [wave_height |-> Whole(1), wave_period |-> Whole(6), swell_direction |-> Whole(90),
     wind_speed |-> Whole(30), wind_direction |-> Whole(90)]
FlatHour ==
    [wave_height |-> Dec(2, 1), wave_period |-> Whole(3), swell_direction |-> Whole(0),
     wind_speed |-> Whole(40), wind_direction |-> Whole(0)]

HourOfKind(kind) ==
    IF kind = "clean" THEN CleanHour ELSE IF kind = "fair" THEN FairHour ELSE FlatHour

\* An HourlyForecast; its time is the hour it is for.
TimedHour(hour, time) ==
    [time |-> time, wave_height |-> hour.wave_height,
     wave_period |-> hour.wave_period, swell_direction |-> hour.swell_direction,
     wind_speed |-> hour.wind_speed, wind_direction |-> hour.wind_direction]
HourlyForecast(kind, time) == TimedHour(HourOfKind(kind), time)

RunLengths == {1, 2, 4, 6, 8, 24}
Runs == [kind : HourKinds, hours : RunLengths]

\* Lists of one and of two runs take their runs of every length; a list of
\* more runs is a list of runs of an hour or two followed by a run of any
\* length, so that streaks of one class lie apart within a window and on
\* both sides of its end.
ShortRuns == {r \in Runs : r.hours <= 2}
IsShort(l) == \A i \in 1 .. Len(l) : l[i] \in ShortRuns
Longer(shorter, n) ==
    shorter \cup
        {Append(l, r) :
             l \in {x \in shorter : Len(x) = n - 1 /\ (n > 2 => IsShort(x))}, r \in Runs}
RECURSIVE RunLists(_)
RunLists(n) == IF n = 0 THEN {<<>>} ELSE Longer(RunLists(n - 1), n)

\* The kinds of the hours of a list of runs, in order.
RECURSIVE KindsOf(_)
KindsOf(runs) ==
    IF runs = <<>> THEN <<>>
    ELSE [i \in 1 .. Head(runs).hours |-> Head(runs).kind] \o KindsOf(Tail(runs))

\* The array a list of runs stands for: one point per hour, from hour 0 on.
HoursOfKinds(kinds) == Array([i \in 1 .. Len(kinds) |-> HourlyForecast(kinds[i], i - 1)])
HourlyForecasts(arg) == IF arg.t = "runs" THEN HoursOfKinds(KindsOf(arg.runs)) ELSE arg

ForecastArgs == {Null, Undefined} \cup {[t |-> "runs", runs |-> l] : l \in RunLists(MaxRuns)}

\* Clock readings: before every point, after the first three, after all.
NowVals == {0, 3, 100}
TideArgs == {"Low", "Mid"}

DurationInit ==
    /\ pc = "ready"
    /\ forecasts \in ForecastArgs
    /\ nowT \in NowVals
    /\ tideArg \in TideArgs
    /\ duration = NoDuration
    /\ ScoreIdle
    /\ BuoyIdle
    /\ RestIdle

Summarize ==
    /\ pc = "ready"
    /\ \E u \in Draws :
           duration' = getConditionsDuration(HourlyForecasts(forecasts), tideArg, nowT, u)
    /\ pc' = "done"
    /\ UNCHANGED <<forecasts, nowT, tideArg, scoreVars, buoyVars, restVars>>

DurationNext == Summarize

SpecDuration == DurationInit /\ [][DurationNext]_vars

-----------------------------------------------------------------------------
(* The tide estimate read as the day goes by *)

HoursOfDay == 0 .. 23

TideInit ==
    /\ pc = "ready"
    /\ clockHour \in HoursOfDay
    /\ tideAt = -1
    /\ tideState = ""
    /\ ScoreIdle
    /\ BuoyIdle
    /\ DurationIdle
    /\ TideFetchIdle
    /\ HandlerIdle
    /\ CacheIdle

\* An hour passes.
TickHour ==
    /\ clockHour' = (clockHour + 1) % 24
    /\ UNCHANGED <<pc, tideAt, tideState, scoreVars, buoyVars, durationVars, tideFetchVars,
                   handlerVars, cacheVars>>

GetTide ==
    /\ tideState' = getSimpleTideState(clockHour)
    /\ tideAt' = clockHour
    /\ UNCHANGED <<pc, clockHour, scoreVars, buoyVars, durationVars, tideFetchVars,
                   handlerVars, cacheVars>>

TideNext == TickHour \/ GetTide

SpecTide == TideInit /\ [][TideNext]_vars

-----------------------------------------------------------------------------
(* fetchTideData applied to the replies of the tide station *)

\* Water levels as the station writes them (feet above MLLW), among them those
\* a quarter of the range away from the midpoint of each high and low below;
\* the empty text is a gap.
LevelTokens ==
    {Str("0.8"), Str("0.9"), Str("1.0"), Str("1.3"), Str("1.4"), Str("1.5"), Str("1.55"),
     Str("1.6"), Str("1.75"), Str("1.8"), Str("3.1"), Str("3.3"), Str("3.4"), <<>>}

\* High and low waters as the station predicts them.
PredictionKinds ==
    {[type |-> "H", v |-> Str("4.0")], [type |-> "H", v |-> Str("2.0")],
     [type |-> "L", v |-> Str("0.4")], [type |-> "L", v |-> Str("1.2")],
     [type |-> "L", v |-> Str("1.0")]}

\* The hours between two predictions of a reply.
PredictionGap == 6

LongerPredictions(shorter, n) ==
    shorter \cup
        {Append(l, [t |-> n * PredictionGap, type |-> k.type, v |-> k.v]) :
             l \in {x \in shorter : Len(x) = n - 1}, k \in PredictionKinds}
RECURSIVE PredictionLists(_)
PredictionLists(n) ==
    IF n = 0 THEN {<<>>} ELSE LongerPredictions(PredictionLists(n - 1), n)

CurrentReplies ==
    {Rejected, NotOk, OkUnparseable, OkJson(NoField)}
        \cup {OkJson(Field(<<>>))}
        \cup {OkJson(Field(<<[v |-> token]>>)) : token \in LevelTokens}

PredictionsReplies ==
    {Rejected, NotOk, OkUnparseable, OkJson(NoField)}
        \cup {OkJson(Field(l)) : l \in PredictionLists(MaxPredictions)}

\* Clock readings: before, at and after the first prediction, after them all.
TideNowVals == {0, 6, 7, 100}

TideFetchInit ==
    /\ pc = "tide"
    /\ tideReplies \in [current : CurrentReplies, predictions : PredictionsReplies]
    /\ tideNow \in TideNowVals
    /\ tideLocals = NoLocals
    /\ tideData = NoTideData
    /\ ScoreIdle
    /\ BuoyIdle
    /\ DurationIdle
    /\ TideIdle
    /\ HandlerIdle
    /\ CacheIdle

TideUnchanged ==
    UNCHANGED <<tideReplies, tideNow, scoreVars, buoyVars, durationVars, tideVars,
                handlerVars, cacheVars>>

\* fetchTideData runs from one await to the next without interruption; each
\* action below is one such run.  `exit` is where its caller is once
\* fetchTideData has returned.

\* From the end of "await Promise.all([fetch, fetch])" to the next await or
\* the return: a rejected fetch throws into the catch block.
TideFetched(exit) ==
    /\ pc = "tide"
    /\ pc' = TidePosition(pc, tideReplies.current, tideReplies.predictions, exit)
    /\ tideLocals' = [currentHeight |-> InitialHeight]
    /\ tideData' =
           IF pc' # exit THEN tideData
           ELSE IF tideReplies.current.kind = "rejected"
                   \/ tideReplies.predictions.kind = "rejected"
           THEN DefaultTideData
           ELSE TideResult(InitialHeight, tideReplies.predictions, tideNow)
    /\ TideUnchanged

\* From the end of "await currentRes.json()": a body that is not JSON throws.
TideLevelRead(exit) ==
    /\ pc = "tideLevel"
    /\ pc' = TidePosition(pc, tideReplies.current, tideReplies.predictions, exit)
    /\ tideLocals' =
           IF tideReplies.current.json
           THEN [currentHeight |-> CurrentHeight(tideReplies.current)]
           ELSE tideLocals
    /\ tideData' =
           IF pc' # exit THEN tideData
           ELSE IF ~tideReplies.current.json THEN DefaultTideData
           ELSE TideResult(tideLocals'.currentHeight, tideReplies.predictions, tideNow)
    /\ TideUnchanged

\* From the end of "await predictionsRes.json()" to the return.
TidePredictionsRead(exit) ==
    /\ pc = "tidePredictions"
    /\ pc' = TidePosition(pc, tideReplies.current, tideReplies.predictions, exit)
    /\ tideData' =
           IF ~tideReplies.predictions.json THEN DefaultTideData
           ELSE TideResult(tideLocals.currentHeight, tideReplies.predictions, tideNow)
    /\ UNCHANGED tideLocals
    /\ TideUnchanged

FetchTideSettled == TideFetched("done")
FetchTideLevel == TideLevelRead("done")
FetchTidePredictions == TidePredictionsRead("done")

TideFetchNext == FetchTideSettled \/ FetchTideLevel \/ FetchTidePredictions

SpecTideFetch == TideFetchInit /\ [][TideFetchNext]_vars

-----------------------------------------------------------------------------
(* SimpleCache: an in-memory cache bounded in size and in age, and the
   services that keep one.  The Map is a sequence of entries [key, item] in
   insertion order, the order in which Map.prototype.keys() iterates; item is
   { data, timestamp }.  Time is counted in ticks of the clock. *)

MaxCapacity == 2
MaxTtl == 2
MaxClock == 4

\* Map.prototype.has / get / delete / set / clear
MapIndex(map, key) ==
    IF \E i \in 1..Len(map) : map[i].key = key
    THEN CHOOSE i \in 1..Len(map) : map[i].key = key
    ELSE 0
MapHas(map, key) == MapIndex(map, key) # 0
MapGet(map, key) == map[MapIndex(map, key)].item
MapDelete(map, key) == SelectSeq(map, LAMBDA e : e.key # key)
\* a key already present keeps its place in the iteration order
MapSet(map, key, item) ==
    IF MapHas(map, key)
    THEN [map EXCEPT ![MapIndex(map, key)] = [key |-> key, item |-> item]]
    ELSE Append(map, [key |-> key, item |-> item])

ExpiredLate(item, now, ttl) == now - item.timestamp > ttl + 1

\* Date.now() - item.timestamp > this.ttl
Expired(item, now, ttl) == now - item.timestamp > ttl

\* get(key): the Map it leaves and the value it returns
get(map, key, now, ttl) ==
    IF ~MapHas(map, key) THEN [cache |-> map, value |-> Null]
    ELSE IF Expired(MapGet(map, key), now, ttl)
         THEN [cache |-> MapDelete(map, key), value |-> Null]
         ELSE [cache |-> map, value |-> MapGet(map, key).data]

EvictNothing(map) == map

\* const firstKey = this.cache.keys().next().value; this.cache.delete(firstKey)
\* (on an empty Map firstKey is undefined and nothing is deleted)
Evict(map) == IF map = <<>> THEN map ELSE MapDelete(map, map[1].key)

\* if (this.cache.size >= this.maxSize)
IsFull(map, maxSize) == Len(map) >= maxSize

\* set(key, data): the Map it leaves
set(map, key, data, now, maxSize) ==
    MapSet(IF IsFull(map, maxSize) THEN Evict(map) ELSE map,
           key, [data |-> data, timestamp |-> now])

\* clear()
clear(map) == <<>>

\* The keys of the callers.
MarineKey == "marine-data"
WeatherKey == "weather-data"
BuoyKey == "buoy-data"
TideKey == "tide-data"
CacheKeys == {MarineKey, WeatherKey, BuoyKey, TideKey}

\* new SimpleCache(50, config.cache.ttl) of WeatherService and
\* new SimpleCache(10, config.cache.ttl) of BuoyService and of TideService
WeatherCacheSize == 50
BuoyCacheSize == 10
TideCacheSize == 10

\* Who holds the cache: a caller of get, set and clear ("SimpleCache"), or one
\* of the services, whose cache is private and touched by its methods only.
Services == {"WeatherService", "BuoyService", "TideService"}
ServiceLimits ==
    {[owner |-> "WeatherService", maxSize |-> WeatherCacheSize],
     [owner |-> "BuoyService", maxSize |-> BuoyCacheSize],
     [owner |-> "TideService", maxSize |-> TideCacheSize]}
CacheLimits ==
    {[owner |-> "SimpleCache", maxSize |-> n, ttl |-> ttl] :
         n \in 0 .. MaxCapacity, ttl \in 1 .. MaxTtl}
        \cup {[owner |-> l.owner, maxSize |-> l.maxSize, ttl |-> ttl] :
                  l \in ServiceLimits, ttl \in 1 .. MaxTtl}

\* The data a caller stores: what the upstream API sent, marked with the time
\* at which it was asked for.
Payload(now) == [t |-> "object", fetchedAt |-> now]

\* JSON texts that are no object: 0, null, false and "".
False == [t |-> "boolean", b |-> FALSE]
EmptyString == [t |-> "string", s |-> <<>>]
FalsyBodies == {Zero(FALSE), Null, False, EmptyString}

\* What response.json() resolves to for a request made at fetchedAt.
Bodies(fetchedAt) == {Payload(fetchedAt)} \cup FalsyBodies

\* The value TideService.fetchTideData resolves to.
TideSnapshot ==
    [t |-> "object", currentHeight |-> Whole(2), state |-> "Mid", nextHigh |-> Null,
     nextLow |-> Null]

CacheInit ==
    /\ pc = "ready"
    /\ store = <<>>
    /\ clock = 0
    /\ limits \in CacheLimits
    /\ returned = NoOperation
    /\ flights = <<>>
    /\ ScoreIdle
    /\ BuoyIdle
    /\ DurationIdle
    /\ TideIdle
    /\ TideFetchIdle
    /\ HandlerIdle

CacheUnchanged ==
    UNCHANGED <<pc, limits, scoreVars, buoyVars, durationVars, tideVars, tideFetchVars,
                handlerVars>>

\* Time passes.
Tick ==
    /\ clock < MaxClock
    /\ clock' = clock + 1
    /\ UNCHANGED <<store, returned, flights>>
    /\ CacheUnchanged

\* What an operation did: the value it returned (undefined while its caller is
\* suspended) or that it threw, whether the key was present before, whether
\* the operation asked or had asked upstream, and whether it called set on a
\* full cache.
Did(op, key, value, had, fetched, full, threw) ==
    [op |-> op, key |-> key, value |-> value, had |-> had, fetched |-> fetched,
     full |-> full, threw |-> threw]

Got(key, r) ==
    /\ store' = r.cache
    /\ returned' = Did("get", key, r.value, MapHas(store, key), FALSE, FALSE, FALSE)

CacheGet ==
    /\ limits.owner = "SimpleCache"
    /\ \E key \in CacheKeys : Got(key, get(store, key, clock, limits.ttl))
    /\ UNCHANGED <<clock, flights>>
    /\ CacheUnchanged

CacheSet ==
    /\ limits.owner = "SimpleCache"
    /\ \E key \in CacheKeys :
        /\ store' = set(store, key, Payload(clock), clock, limits.maxSize)
        /\ returned' = Did("set", key, Undefined, MapHas(store, key), FALSE,
                           IsFull(store, limits.maxSize), FALSE)
    /\ UNCHANGED <<clock, flights>>
    /\ CacheUnchanged

CacheClear ==
    /\ limits.owner = "SimpleCache"
    /\ store' = clear(store)
    /\ returned' = Did("clear", "", Undefined, FALSE, FALSE, FALSE, FALSE)
    /\ UNCHANGED <<clock, flights>>
    /\ CacheUnchanged

\* A method of a service runs from one await to the next without
\* interruption, and other calls run while it is suspended; each action below
\* is one such run.  A suspended call is [method, at, fetchedAt]: the await it
\* is suspended at and the time of its request.
Without(suspended, i) ==
    SubSeq(suspended, 1, i - 1) \o SubSeq(suspended, i + 1, Len(suspended))

Suspended(method, at, fetchedAt) == [method |-> method, at |-> at, fetchedAt |-> fetchedAt]

\* const cached = this.cache.get(cacheKey); if (cached) return cached;
\* and then on to the first await.  r is what get gave.
Called(method, key, at, r) ==
    /\ ~Truthy(r.value) => Len(flights) < MaxFlights
    /\ store' = r.cache
    /\ flights' = IF Truthy(r.value) THEN flights
                  ELSE Append(flights, Suspended(method, at, clock))
    /\ returned' = Did(method, key, IF Truthy(r.value) THEN r.value ELSE Undefined,
                       MapHas(store, key), ~Truthy(r.value), FALSE, FALSE)
    /\ UNCHANGED clock
    /\ CacheUnchanged

\* From the end of "await fetch" to the next await; a rejected fetch and a
\* status that is not ok throw into the catch block, which returns null or
\* throws again.
Fetched(method, key, next, rethrows) ==
    \E i \in 1 .. Len(flights), ok \in BOOLEAN :
        /\ flights[i].method = method
        /\ flights[i].at = "fetch"
        /\ flights' = IF ok THEN [flights EXCEPT ![i].at = next] ELSE Without(flights, i)
        /\ returned' = Did(method \o ".fetch", key, IF ok \/ rethrows THEN Undefined ELSE Null,
                           MapHas(store, key), TRUE, FALSE, ~ok /\ rethrows)
        /\ UNCHANGED <<store, clock>>
        /\ CacheUnchanged

\* const data = await response.json(); this.cache.set(cacheKey, data);
\* return data; a body that is not JSON throws into the catch block.
ReadJson(method, key, rethrows) ==
    \E i \in 1 .. Len(flights), json \in BOOLEAN :
        /\ flights[i].method = method
        /\ flights[i].at = "json"
        /\ flights' = Without(flights, i)
        /\ \E data \in (IF json THEN Bodies(flights[i].fetchedAt) ELSE {Null}) :
              /\ store' = IF json THEN set(store, key, data, clock, limits.maxSize)
                          ELSE store
              /\ returned' = Did(method \o ".json", key,
                                 IF json THEN data ELSE IF rethrows THEN Undefined ELSE Null,
                                 MapHas(store, key), TRUE,
                                 json /\ IsFull(store, limits.maxSize), ~json /\ rethrows)
        /\ UNCHANGED clock
        /\ CacheUnchanged

\* WeatherService.getMarineData: its catch block returns null.
GetMarineData ==
    /\ limits.owner = "WeatherService"
    /\ Called("getMarineData", MarineKey, "fetch", get(store, MarineKey, clock, limits.ttl))
GetMarineDataFetched == Fetched("getMarineData", MarineKey, "json", FALSE)
GetMarineDataRead == ReadJson("getMarineData", MarineKey, FALSE)

\* WeatherService.getWeatherData: its catch block throws the error again.
GetWeatherData ==
    /\ limits.owner = "WeatherService"
    /\ Called("getWeatherData", WeatherKey, "fetch", get(store, WeatherKey, clock, limits.ttl))
GetWeatherDataFetched == Fetched("getWeatherData", WeatherKey, "json", TRUE)
GetWeatherDataRead == ReadJson("getWeatherData", WeatherKey, TRUE)

\* BuoyService.parseBuoyData, a placeholder: return null
ParsedByService(text) == Null

\* BuoyService.getBuoyData: its catch block returns null.
GetBuoyData ==
    /\ limits.owner = "BuoyService"
    /\ Called("getBuoyData", BuoyKey, "fetch", get(store, BuoyKey, clock, limits.ttl))
GetBuoyDataFetched == Fetched("getBuoyData", BuoyKey, "text", FALSE)

\* const text = await response.text(); const parsed = this.parseBuoyData(text);
\* if (parsed) this.cache.set(cacheKey, parsed); return parsed; a body that
\* cannot be read throws into the catch block.
GetBuoyDataRead ==
    \E i \in 1 .. Len(flights), text \in BOOLEAN :
        /\ flights[i].method = "getBuoyData"
        /\ flights[i].at = "text"
        /\ flights' = Without(flights, i)
        /\ store' = IF text /\ Truthy(ParsedByService(text))
                    THEN set(store, BuoyKey, ParsedByService(text), clock, limits.maxSize)
                    ELSE store
        /\ returned' = Did("getBuoyData.text", BuoyKey,
                           IF text THEN ParsedByService(text) ELSE Null,
                           MapHas(store, BuoyKey), TRUE,
                           text /\ Truthy(ParsedByService(text))
                               /\ IsFull(store, limits.maxSize), FALSE)
        /\ UNCHANGED clock
        /\ CacheUnchanged

\* TideService.getTideData, to "await this.fetchTideData()", which calls no
\* upstream and does not throw.
GetTideData ==
    /\ limits.owner = "TideService"
    /\ Called("getTideData", TideKey, "fetchTideData", get(store, TideKey, clock, limits.ttl))

\* this.cache.set(cacheKey, tideData); return tideData
GetTideDataFetched ==
    \E i \in 1 .. Len(flights) :
        /\ flights[i].method = "getTideData"
        /\ flights[i].at = "fetchTideData"
        /\ flights' = Without(flights, i)
        /\ store' = set(store, TideKey, TideSnapshot, clock, limits.maxSize)
        /\ returned' = Did("getTideData.fetchTideData", TideKey, TideSnapshot,
                           MapHas(store, TideKey), TRUE, IsFull(store, limits.maxSize),
                           FALSE)
        /\ UNCHANGED clock
        /\ CacheUnchanged

CacheNext ==
    \/ Tick \/ CacheGet \/ CacheSet \/ CacheClear
    \/ GetMarineData \/ GetMarineDataFetched \/ GetMarineDataRead
    \/ GetWeatherData \/ GetWeatherDataFetched \/ GetWeatherDataRead
    \/ GetBuoyData \/ GetBuoyDataFetched \/ GetBuoyDataRead
    \/ GetTideData \/ GetTideDataFetched

SpecCache == CacheInit /\ [][CacheNext]_vars

-----------------------------------------------------------------------------
(* One GET /surfability request and the replies of its four sources *)

\* The tide station: down, answering 500 twice, and answering with a level
\* of 1.0 ft or 3.4 ft before a high water of 4.0 ft and a low of 0.4 ft.
HandlerPredictions ==
    <<[t |-> 6, type |-> "H", v |-> Str("4.0")], [t |-> 12, type |-> "L", v |-> Str("0.4")]>>
HandlerLevels == {Str("1.0"), Str("3.4")}
HandlerTideReplies ==
    {[current |-> Rejected, predictions |-> Rejected],
     [current |-> NotOk, predictions |-> NotOk]}
        \cup {[current |-> OkJson(Field(<<[v |-> level]>>)),
               predictions |-> OkJson(Field(HandlerPredictions))] : level \in HandlerLevels}

\* The buoy: down, answering 500, answering with a feed that parses (1.0 m,
\* 10.5 s, 98 degrees) and with one that has no header.
OkText == [kind |-> "response", ok |-> TRUE, text |-> TRUE]
\* An ok response whose body cannot be read: buoyRes.text() rejects.
OkNoText == [kind |-> "response", ok |-> TRUE, text |-> FALSE]
HandlerRow == Row15(Str("1.0"), UsualSwellPeriod, UsualAveragePeriod, UsualDirection)
HandlerFeeds ==
    {Feed(<<HeaderLine, UnitsLine>>, <<HandlerRow>>), Feed(<<UnitsLine>>, <<HandlerRow>>)}
HandlerBuoyReplies ==
    {[reply |-> Rejected, feed |-> NoFeed], [reply |-> NotOk, feed |-> NoFeed],
     [reply |-> OkNoText, feed |-> NoFeed]}
        \cup {[reply |-> OkText, feed |-> f] : f \in HandlerFeeds}

\* The marine API (metres, seconds, degrees, hour by hour).
MarineBody(heights, periods, directions) ==
    [hasHourly |-> TRUE,
     hourly |-> [wave_height |-> heights, wave_period |-> periods,
                 swell_wave_direction |-> directions]]
MarineNoHourly ==
    [hasHourly |-> FALSE,
     hourly |-> [wave_height |-> <<>>, wave_period |-> <<>>,
                 swell_wave_direction |-> <<>>]]
HandlerMarineReplies ==
    {Rejected, NotOk, OkUnparseable, OkJson(MarineNoHourly),
     OkJson(MarineBody(<<Whole(1), Whole(1), Dec(2, 1)>>, <<Whole(11), Whole(11), Whole(3)>>,
                       <<Whole(0), Whole(90), Whole(0)>>)),
     OkJson(MarineBody(<<Whole(0), Whole(1), Whole(1)>>, <<Whole(6), Whole(11), Whole(11)>>,
                       <<Whole(90), Whole(90), Whole(90)>>)),
     OkJson(MarineBody(<<Null, Whole(1)>>, <<Null, Whole(11)>>, <<Null, Whole(90)>>))}

\* The weather API (km/h, degrees): the hours of the forecast, the wind now
\* and hour by hour, a value it does not have being null.  A body may lack
\* blocks: {error: true} has neither current nor hourly, the reply to a
\* request for current values has no hourly, and a body may come without
\* current or without the hourly wind arrays.
ForecastHours == <<0, 1, 2>>
WeatherBody(speed, direction, speeds, directions) ==
    [lacks |-> {},
     current |-> [wind_speed_10m |-> speed, wind_direction_10m |-> direction],
     hourly |-> [time |-> ForecastHours, wind_speed_10m |-> speeds,
                 wind_direction_10m |-> directions]]
Lacking(body, blocks) == [body EXCEPT !.lacks = blocks]
OffshoreBody ==
    WeatherBody(Whole(5), Whole(270), <<Whole(5), Whole(5), Whole(30)>>,
                <<Whole(270), Whole(270), Whole(90)>>)
WeatherBodies ==
    {OffshoreBody,
     WeatherBody(Whole(30), Whole(90), <<Whole(30), Whole(30)>>, <<Whole(90), Whole(90)>>),
     WeatherBody(Whole(5), Null, <<Whole(5), Whole(5), Whole(5)>>,
                 <<Whole(270), Null, Whole(270)>>)}
LackingBodies ==
    {Lacking(OffshoreBody, blocks) :
         blocks \in {{"current", "hourly"}, {"current"}, {"hourly"}, {"winds"}}}
HandlerWeatherReplies ==
    {Rejected, NotOk, OkUnparseable} \cup {OkJson(b) : b \in WeatherBodies \cup LackingBodies}

\* The clock: at the first hour of the forecast, one hour later, and after
\* its last hour.
HandlerNowVals == {0, 1, 3}

\* The hour of the day: one for each state that getSimpleTideState tells.
HandlerHours == {0, 3, 6, 8}

HandlerReplies ==
    {[buoy |-> b.reply, feed |-> b.feed, marine |-> mr, weather |-> wr, now |-> now] :
        b \in HandlerBuoyReplies, mr \in HandlerMarineReplies,
        wr \in HandlerWeatherReplies, now \in HandlerNowVals}

\* The handlers of GET /surfability in the sources: "first", the handler of
\* index.ts that takes the tide from the time of day; "second", the handler
\* of index.ts that asks the tide station; "controller",
\* SurfController.getSurfability with its services; "old", the handler of the
\* compiled file, which asks the buoy and the weather API and nothing else.
IndexRoutes == {"first", "second"}
Routes == IndexRoutes \cup {"controller", "old"}

\* The replies that the sources will give to the request.
Meets(r) ==
    /\ buoyFeed = r.feed
    /\ buoyText = Render(r.feed)
    /\ replies = [kind |-> "replies", buoy |-> r.buoy, marine |-> r.marine,
                  weather |-> r.weather, now |-> r.now]

\* The first handler, suspended at the fetch of the buoy feed.
FirstInit ==
    /\ route = "first"
    /\ pc = "buoy"
    /\ tideReplies = NoReplies
    /\ clockHour \in HandlerHours
    /\ \E r \in HandlerReplies : Meets(r)

\* The second handler, with fetchTideData suspended at its two fetches.
SecondInit ==
    /\ route = "second"
    /\ pc = "tide"
    /\ tideReplies \in HandlerTideReplies
    /\ clockHour = 0
    /\ \E r \in HandlerReplies : Meets(r)

\* req.query as Express hands it over: every value a string.
StringOf(s) == [t |-> "string", s |-> Str(s)]
NoQuery == [format |-> Undefined, units |-> Undefined, includeRaw |-> Undefined]
Queries ==
    {NoQuery,
     [NoQuery EXCEPT !.format = StringOf("xml"), !.units = StringOf("metric")],
     [NoQuery EXCEPT !.format = StringOf("csv")],
     [NoQuery EXCEPT !.includeRaw = StringOf("true")]}

\* config.nodeEnv: process.env.NODE_ENV || 'development'
NodeEnvs == {"development", "production"}

\* querySchema.parse(query): the paths of the issues of the ZodError it
\* throws, none when the query is valid.  format and units are optional
\* enums, includeRaw is an optional boolean.
Issues(query) ==
    (IF query.format \in {Undefined, StringOf("json"), StringOf("xml")}
     THEN <<>> ELSE <<"format">>)
        \o (IF query.units \in {Undefined, StringOf("metric"), StringOf("imperial")}
            THEN <<>> ELSE <<"units">>)
        \o (IF query.includeRaw.t \in {"undefined", "boolean"}
            THEN <<>> ELSE <<"includeRaw">>)

\* The requests of the controller: a query it accepts with every reply of
\* the sources, and every query in both environments with the sources down.
ControllerRequests ==
    {[reply |-> r, query |-> q, nodeEnv |-> "development"] :
         r \in {x \in HandlerReplies : x.now = 0}, q \in {x \in Queries : Issues(x) = <<>>}}
        \cup
    {[reply |-> [buoy |-> Rejected, feed |-> NoFeed, marine |-> Rejected,
                 weather |-> Rejected, now |-> 0],
      query |-> q, nodeEnv |-> e] : q \in Queries, e \in NodeEnvs}

\* The controller, as the request arrives.
ControllerInit ==
    /\ route = "controller"
    /\ pc = "request"
    /\ tideReplies = NoReplies
    /\ clockHour = 0
    /\ \E r \in ControllerRequests :
          /\ buoyFeed = r.reply.feed
          /\ buoyText = Render(r.reply.feed)
          /\ replies = [kind |-> "replies", buoy |-> r.reply.buoy,
                        marine |-> r.reply.marine, weather |-> r.reply.weather,
                        now |-> r.reply.now, query |-> r.query, nodeEnv |-> r.nodeEnv]

\* What the old handler, which looks at no status, is answered.  The buoy is
\* down, answers 404 with a page of one line, answers with a body that cannot
\* be read, with an empty feed, with a feed whose third line is a row and with
\* one whose third line is empty.  The weather API is down, answers with a
\* text that is not JSON, answers 400 with {error: true}, and answers the
\* request for the current wind with and without the current block.
NotOkText == [kind |-> "response", ok |-> FALSE, text |-> TRUE]
NotOkJson(body) == [kind |-> "response", ok |-> FALSE, json |-> TRUE, body |-> body]
ErrorPage == Feed(<<Str("Not Found")>>, <<>>)
OldBuoyReplies ==
    {[reply |-> Rejected, feed |-> NoFeed], [reply |-> OkNoText, feed |-> NoFeed],
     [reply |-> NotOkText, feed |-> ErrorPage], [reply |-> OkText, feed |-> NoFeed]}
        \cup {[reply |-> OkText, feed |-> f] : f \in HandlerFeeds}
OldWeatherReplies ==
    {Rejected, OkUnparseable, NotOkJson(Lacking(OffshoreBody, {"current", "hourly"})),
     OkJson(Lacking(OffshoreBody, {"current"}))}
        \cup {OkJson(Lacking(b, {"hourly"})) : b \in WeatherBodies}

\* The old handler, suspended at the fetch of the buoy feed.
OldInit ==
    /\ route = "old"
    /\ pc = "buoy"
    /\ tideReplies = NoReplies
    /\ clockHour = 0
    /\ \E b \in OldBuoyReplies, wr \in OldWeatherReplies :
          /\ buoyFeed = b.feed
          /\ buoyText = Render(b.feed)
          /\ replies = [kind |-> "replies", buoy |-> b.reply, weather |-> wr]

HandlerInit ==
    /\ FirstInit \/ SecondInit \/ ControllerInit \/ OldInit
    /\ tideAt = -1
    /\ tideState = ""
    /\ tideNow = 0
    /\ tideLocals = NoLocals
    /\ tideData = NoTideData
    /\ buoyOut = NoOutput
    /\ marineData = Null
    /\ calls = NoCalls
    /\ responses = <<>>
    /\ settled = NoPromises
    /\ caches = NoCaches
    /\ ScoreIdle
    /\ DurationIdle
    /\ CacheIdle

Answered(reply) == reply.kind = "response" /\ reply.ok

\* Where a handler of index.ts, suspended at the await `position`, goes on to
\* when that await ends: its next await, or "done" once it has answered.  At
\* "tide", "tideLevel" and "tidePredictions" the second handler waits for
\* fetchTideData, which is itself suspended at one of its awaits; at
\* "tideData" fetchTideData has returned and the handler waits to be resumed
\* with the value.
NextPosition(position) ==
    CASE position \in {"tide", "tideLevel", "tidePredictions"} ->
             TidePosition(position, tideReplies.current, tideReplies.predictions,
                          "tideData")
      [] position = "tideData" -> "buoy"
      [] position = "buoy" -> IF Answered(replies.buoy) THEN "buoyText" ELSE "marine"
      [] position = "buoyText" -> "marine"
      [] position = "marine" -> IF Answered(replies.marine) THEN "marineJson" ELSE "weather"
      [] position = "marineJson" -> "weather"
      [] position = "weather" -> IF Answered(replies.weather) THEN "weatherJson" ELSE "done"
      [] OTHER -> "done"

-----------------------------------------------------------------------------
(* The second handler of index.ts, which asks the tide station.  Each action
   is one run of the handler from the end of an await to its next await or
   to its end. *)

\* The three runs of fetchTideData, called by the handler.
AwaitTide == route = "second" /\ TideFetched("tideData")
AwaitTideLevel == route = "second" /\ TideLevelRead("tideData")
AwaitTidePredictions == route = "second" /\ TidePredictionsRead("tideData")

\* const tideData = await fetchTideData(): from the end of this await, which
\* comes a turn of the job queue after fetchTideData returned, to the fetch
\* of the buoy feed.
AwaitTideData ==
    /\ route = "second"
    /\ pc = "tideData"
    /\ pc' = NextPosition(pc)
    /\ UNCHANGED <<scoreVars, buoyVars, durationVars, tideVars, tideFetchVars, handlerVars,
                   cacheVars>>

BuoyUnchanged ==
    UNCHANGED <<buoyFeed, buoyText, scoreVars, durationVars, tideVars, tideFetchVars,
                handlerVars, cacheVars>>

\* "Fetch buoy data with error handling": from the end of "await fetch" of the
\* buoy feed; a rejected fetch and a status that is not ok throw into the
\* catch block, which leaves buoyData null.
BuoyFetched ==
    /\ pc = "buoy"
    /\ pc' = NextPosition(pc)
    /\ buoyOut' = IF Answered(replies.buoy) THEN buoyOut ELSE Null
    /\ BuoyUnchanged
AwaitBuoy == route = "second" /\ BuoyFetched

\* From the end of "await buoyRes.text()".
BuoyTextRead ==
    /\ pc = "buoyText"
    /\ pc' = NextPosition(pc)
    /\ buoyOut' = IF replies.buoy.text THEN parseBuoyData(buoyText) ELSE Null
    /\ BuoyUnchanged
AwaitBuoyText == route = "second" /\ BuoyTextRead

MarineUnchanged ==
    UNCHANGED <<replies, calls, responses, route, settled, caches, scoreVars, buoyVars,
                durationVars, tideVars, tideFetchVars, cacheVars>>

\* "Try marine API first for wave data AND water temperature": from the end
\* of "await fetch" of the marine API; marineData stays null unless the
\* status is ok.
MarineFetched ==
    /\ pc = "marine"
    /\ pc' = NextPosition(pc)
    /\ UNCHANGED marineData
    /\ MarineUnchanged
AwaitMarine == route = "second" /\ MarineFetched

\* From the end of "await marineRes.json()"; a body that is not JSON throws
\* into the catch block.
MarineJsonRead ==
    /\ pc = "marineJson"
    /\ pc' = NextPosition(pc)
    /\ marineData' = IF replies.marine.json THEN replies.marine.body ELSE Null
    /\ MarineUnchanged
AwaitMarineJson == route = "second" /\ MarineJsonRead

RespondNothing(sent) == sent

\* The answer of the catch block of the handler.
RespondError(sent) == Append(sent, ErrorResponse)

WeatherUnchanged ==
    UNCHANGED <<replies, marineData, route, settled, caches, scoreVars, buoyVars,
                durationVars, clockHour, tideFetchVars, cacheVars>>

\* "Get regular weather data": from the end of "await fetch" of the weather
\* API; a rejected fetch and a status that is not ok throw into the catch
\* block of the handler.
WeatherFetched ==
    /\ pc = "weather"
    /\ pc' = NextPosition(pc)
    /\ responses' = IF Answered(replies.weather) THEN responses ELSE RespondError(responses)
    /\ UNCHANGED <<calls, tideAt, tideState>>
    /\ WeatherUnchanged
AwaitWeather == route = "second" /\ WeatherFetched

\* The calls of calculateSurfability and of getConditionsDuration with their
\* arguments: after calculateSurfability alone was called, and after both.
Scored(data) == [made |-> FALSE, scored |-> TRUE, currentSurfData |-> data]
Made(data, forecast, tide) ==
    [made |-> TRUE, scored |-> TRUE, currentSurfData |-> data,
     hourlyForecasts |-> forecast, tide |-> tide]

\* From the end of "await weatherRes.json()" to the response.  A body that is
\* not JSON or lacks the current block throws before anything is scored; one
\* that lacks the hourly block or the hourly wind throws once
\* calculateSurfability has been called for the current conditions (it draws
\* a Math.random for a label that is not sent).  The label of the rating and
\* the flat message of the report are two calls of Math.random.
AwaitWeatherJson ==
    /\ route = "second"
    /\ pc = "weatherJson"
    /\ pc' = NextPosition(pc)
    /\ IF NoCurrent(replies.weather)
       THEN /\ responses' = RespondError(responses)
            /\ calls' = calls
       ELSE LET data == currentSurfData(tideData, buoyOut, marineData, replies.weather.body)
            IN  IF NoHourly(replies.weather)
                THEN /\ responses' = RespondError(responses)
                     /\ calls' = Scored(data)
                ELSE LET forecast == hourlyForecasts(marineData, replies.weather.body)
                     IN  \E u, v \in Draws :
                            /\ calls' = Made(data, forecast, tideData.state)
                            /\ responses' = Append(responses,
                                   Report(data, forecast, tideData, buoyOut, marineData,
                                          replies.now, u, v))
    /\ UNCHANGED <<tideAt, tideState>>
    /\ WeatherUnchanged

-----------------------------------------------------------------------------
(* The first handler of index.ts, which takes the tide from the time of day.
   From the fetch of the buoy feed to that of the weather API its code is
   that of the second handler. *)

FirstAwaitBuoy == route = "first" /\ BuoyFetched
FirstAwaitBuoyText == route = "first" /\ BuoyTextRead
FirstAwaitMarine == route = "first" /\ MarineFetched
FirstAwaitMarineJson == route = "first" /\ MarineJsonRead
FirstAwaitWeather == route = "first" /\ WeatherFetched

\* The tide as this handler passes it on: a state, and no height.
SimpleTide(hour) == [state |-> getSimpleTideState(hour), currentHeight |-> Undefined]

\* From the end of "await weatherRes.json()" to the response.  The body is
\* read as by the second handler; getSimpleTideState is called once the
\* current block has been read.
FirstAwaitWeatherJson ==
    /\ route = "first"
    /\ pc = "weatherJson"
    /\ pc' = NextPosition(pc)
    /\ IF NoCurrent(replies.weather)
       THEN /\ responses' = RespondError(responses)
            /\ calls' = calls
            /\ UNCHANGED <<tideAt, tideState>>
       ELSE LET tide == SimpleTide(clockHour)
                data == currentSurfData(tide, buoyOut, marineData, replies.weather.body)
            IN  /\ tideAt' = clockHour
                /\ tideState' = tide.state
                /\ IF NoHourly(replies.weather)
                   THEN /\ responses' = RespondError(responses)
                        /\ calls' = Scored(data)
                   ELSE LET forecast == hourlyForecasts(marineData, replies.weather.body)
                        IN  \E u, v \in Draws :
                               /\ calls' = Made(data, forecast, tide.state)
                               /\ responses' = Append(responses,
                                      FirstReport(data, forecast, tide.state, buoyOut,
                                                  marineData, replies.now, u, v))
    /\ WeatherUnchanged

-----------------------------------------------------------------------------
(* SurfController.getSurfability and the services it asks.  The request is
   served within one reading of the clock. *)

\* config.cache.ttl, in milliseconds
ConfigTtl == 5 * 60 * 1000

Methods == {"getMarineData", "getWeatherData", "getBuoyData", "getTideData"}
Pending(position) == [at |-> position]
Fulfilled(value) == [at |-> "fulfilled", value |-> value]
RejectedPromise == [at |-> "rejected"]
IsSettled(promise) == promise.at \in {"fulfilled", "rejected"}

\* res.headersSent: whether a response has been sent for the request.
HeadersSent == responses # <<>>

\* The error handling middleware, to which next(error) hands the error: what
\* it sends and what it passes on.  Once a response has been started it sends
\* nothing and hands the error to next; else it answers 500, with the
\* message of the error in development only.
errorHandler(err, nodeEnv, headersSent) ==
    IF headersSent
    THEN [responses |-> <<>>, passedOn |-> <<err>>]
    ELSE [responses |->
              <<[status |-> 500, error |-> "Internal server error",
                 message |-> IF nodeEnv = "development" THEN err.message
                             ELSE "Something went wrong"]>>,
          passedOn |-> <<>>]

\* The ZodError that querySchema.parse throws; its message lists its issues.
ZodError(query) == [name |-> "ZodError", message |-> Issues(query)]

\* A service method from its call to its first await, given what
\* "this.cache.get(cacheKey)" returned: "if (cached) return cached".
ToFirstAwait(cached, position) ==
    IF Truthy(cached) THEN Fulfilled(cached) ELSE Pending(position)

\* From the request to "await Promise.allSettled([...])": a query that
\* querySchema.parse refuses throws into the catch block, whose next(error)
\* reaches errorHandler; else the four service methods are called, in this
\* order, and each runs to its first await.
getSurfability ==
    /\ route = "controller"
    /\ pc = "request"
    /\ IF Issues(replies.query) # <<>>
       THEN /\ responses' = responses \o errorHandler(ZodError(replies.query),
                                                       replies.nodeEnv,
                                                       HeadersSent).responses
            /\ pc' = "done"
            /\ UNCHANGED <<settled, caches>>
       ELSE LET marine == get(caches.WeatherService, MarineKey, clock, ConfigTtl)
                weather == get(marine.cache, WeatherKey, clock, ConfigTtl)
                buoy == get(caches.BuoyService, BuoyKey, clock, ConfigTtl)
                tide == get(caches.TideService, TideKey, clock, ConfigTtl)
            IN  /\ caches' = [WeatherService |-> weather.cache, BuoyService |-> buoy.cache,
                              TideService |-> tide.cache]
                /\ settled' = [getMarineData |-> ToFirstAwait(marine.value, "fetch"),
                               getWeatherData |-> ToFirstAwait(weather.value, "fetch"),
                               getBuoyData |-> ToFirstAwait(buoy.value, "fetch"),
                               getTideData |-> ToFirstAwait(tide.value, "fetchTideData")]
                /\ pc' = "allSettled"
                /\ UNCHANGED responses
    /\ UNCHANGED <<replies, marineData, calls, route, scoreVars, buoyVars, durationVars,
                   tideVars, tideFetchVars, cacheVars>>

\* "await this.fetchTideData()" of a function that returns at once ends with
\* a job that is queued already, which runs before the reply of any source
\* is handled.
JobQueued == settled.getTideData.at = "fetchTideData"

\* What the catch block of a method settles its promise with: getMarineData
\* and getBuoyData return null, getWeatherData throws the error again.
Caught(method) ==
    IF method = "getWeatherData" THEN RejectedPromise ELSE Fulfilled(Null)

\* The reply to the request of a method.
ReplyTo(method) ==
    IF method = "getMarineData" THEN replies.marine
    ELSE IF method = "getWeatherData" THEN replies.weather
    ELSE replies.buoy

\* The promise of a method after its next run.  From the end of "await
\* fetch(...)" a rejected fetch and a status that is not ok throw into the
\* catch block; from the end of "await response.json()" a body that is not
\* JSON does, and the data read are returned; from the end of "await
\* response.text()" what parseBuoyData makes of the text is returned; from
\* the end of "await this.fetchTideData()" its value is.
Resumed(method) ==
    CASE settled[method].at = "fetch" ->
             IF Answered(ReplyTo(method))
             THEN Pending(IF method = "getBuoyData" THEN "text" ELSE "json")
             ELSE Caught(method)
      [] settled[method].at = "json" ->
             IF ReplyTo(method).json THEN Fulfilled(ReplyTo(method).body) ELSE Caught(method)
      [] settled[method].at = "text" ->
             IF ReplyTo(method).text THEN Fulfilled(ParsedByService(buoyText))
             ELSE Caught(method)
      [] settled[method].at = "fetchTideData" -> Fulfilled(TideSnapshot)

ServiceUnchanged ==
    UNCHANGED <<pc, replies, marineData, calls, responses, route, scoreVars, buoyVars,
                durationVars, tideVars, tideFetchVars, cacheVars>>

\* A run of the method that is suspended at the await `position`.
Resume(method, position) ==
    /\ pc = "allSettled"
    /\ settled[method].at = position
    /\ settled' = [settled EXCEPT ![method] = Resumed(method)]
    /\ ServiceUnchanged

\* TideService.getTideData from the end of "await this.fetchTideData()":
\* this.cache.set(cacheKey, tideData); return tideData
TideDataFetched ==
    /\ route = "controller"
    /\ Resume("getTideData", "fetchTideData")
    /\ caches' = [caches EXCEPT
           !.TideService = set(@, TideKey, TideSnapshot, clock, TideCacheSize)]

\* WeatherService.getMarineData and getWeatherData from the end of "await
\* fetch(...)".
MarineDataFetched ==
    /\ route = "controller"
    /\ ~JobQueued
    /\ Resume("getMarineData", "fetch")
    /\ UNCHANGED caches
WeatherDataFetched ==
    /\ route = "controller"
    /\ ~JobQueued
    /\ Resume("getWeatherData", "fetch")
    /\ UNCHANGED caches

\* const data = await response.json(); this.cache.set(cacheKey, data);
\* return data
MarineDataRead ==
    /\ route = "controller"
    /\ ~JobQueued
    /\ Resume("getMarineData", "json")
    /\ caches' = IF replies.marine.json
                 THEN [caches EXCEPT
                          !.WeatherService = set(@, MarineKey, replies.marine.body, clock,
                                                 WeatherCacheSize)]
                 ELSE caches
WeatherDataRead ==
    /\ route = "controller"
    /\ ~JobQueued
    /\ Resume("getWeatherData", "json")
    /\ caches' = IF replies.weather.json
                 THEN [caches EXCEPT
                          !.WeatherService = set(@, WeatherKey, replies.weather.body, clock,
                                                 WeatherCacheSize)]
                 ELSE caches

\* BuoyService.getBuoyData from the end of "await fetch(...)".
BuoyDataFetched ==
    /\ route = "controller"
    /\ ~JobQueued
    /\ Resume("getBuoyData", "fetch")
    /\ UNCHANGED caches

\* const text = await response.text(); const parsed = this.parseBuoyData(text);
\* if (parsed) this.cache.set(cacheKey, parsed); return parsed
BuoyDataRead ==
    /\ route = "controller"
    /\ ~JobQueued
    /\ Resume("getBuoyData", "text")
    /\ caches' = IF replies.buoy.text /\ Truthy(ParsedByService(buoyText))
                 THEN [caches EXCEPT
                          !.BuoyService = set(@, BuoyKey, ParsedByService(buoyText), clock,
                                              BuoyCacheSize)]
                 ELSE caches

\* The promise of Promise.allSettled is fulfilled when the four are settled.
AllSettled == \A method \in Methods : IsSettled(settled[method])

\* x.status === 'fulfilled' ? x.value : null
ValueOr(promise) == IF promise.at = "fulfilled" THEN promise.value ELSE Null

\* The argument of buildSurfabilityResponse.
Gathered ==
    [marineData |-> ValueOr(settled.getMarineData),
     weatherData |-> ValueOr(settled.getWeatherData),
     buoyData |-> ValueOr(settled.getBuoyData),
     tideData |-> ValueOr(settled.getTideData),
     options |-> replies.query]

\* buildSurfabilityResponse(data), a placeholder: the report it returns,
\* whatever its argument (the location, timestamp, weather and tides blocks
\* are left out), as res.json sends it.
buildSurfabilityResponse(data) ==
    [status |-> 200,
     surfable |-> TRUE,
     rating |-> "Fun",
     score |-> 65,
     goodSurfDuration |-> "Good surf for 3 hours",
     details |-> [wave_height_ft |-> Dec(32, 1),
                  wave_period_sec |-> Dec(85, 1),
                  swell_direction_deg |-> Whole(90),
                  wind_direction_deg |-> Whole(180),
                  wind_speed_kts |-> Whole(12),
                  tide_state |-> "Mid",
                  tide_height_ft |-> Dec(21, 1),
                  data_source |-> "Enhanced API"]]

ControllerUnchanged ==
    UNCHANGED <<replies, marineData, calls, route, settled, caches, scoreVars, buoyVars,
                durationVars, tideVars, tideFetchVars, cacheVars>>

\* From the end of "await Promise.allSettled([...])" to "await
\* this.buildSurfabilityResponse({...})".
ControllerSettled ==
    /\ route = "controller"
    /\ pc = "allSettled"
    /\ AllSettled
    /\ pc' = "response"
    /\ UNCHANGED responses
    /\ ControllerUnchanged

\* From the end of "await this.buildSurfabilityResponse({...})": res.set(...)
\* and res.json(response).
ControllerResponds ==
    /\ route = "controller"
    /\ pc = "response"
    /\ pc' = "done"
    /\ responses' = Append(responses, buildSurfabilityResponse(Gathered))
    /\ ControllerUnchanged

-----------------------------------------------------------------------------
(* The old handler, of the compiled file *)

\* calculateSurfability as the compiled file has it.
OldScoreOf(data) ==
    (IF GeN(data.waveHeight, 2) /\ LeN(data.waveHeight, 5) THEN 25 ELSE 0)
    + (IF GeN(data.wavePeriod, 7) THEN 20 ELSE 0)
    + (IF GeN(data.swellDirection, 70) /\ LeN(data.swellDirection, 130) THEN 15 ELSE 0)
    + (IF (GeN(data.windDirection, 225) /\ LeN(data.windDirection, 315))
             \/ LtN(data.windSpeed, 8)
       THEN 25 ELSE 0)
    + (IF data.tide = "Mid" THEN 15 ELSE 0)
OldRating(score) ==
    IF score >= 80 THEN "Excellent" ELSE IF score >= 60 THEN "Fun" ELSE "Marginal"
OldCalculateSurfability(data) ==
    [score |-> OldScoreOf(data), surfable |-> OldScoreOf(data) >= 60,
     rating |-> OldRating(OldScoreOf(data))]

\* The body of its catch block, and the report it sends.
OldErrorResponse == [status |-> 500, error |-> "Error fetching surf data"]
OldReport(data, r) ==
    [status |-> 200,
     surfable |-> r.surfable,
     rating |-> r.rating,
     score |-> r.score,
     details |-> [wave_height_ft |-> data.waveHeight,
                  wave_period_sec |-> data.wavePeriod,
                  swell_direction_deg |-> data.swellDirection,
                  wind_direction_deg |-> data.windDirection,
                  wind_speed_kts |-> data.windSpeed,
                  tide_state |-> data.tide]]

\* (await buoyRes.text()).split('\n').slice(2)
OldLines(text) == SubSeq(SplitLines(text), 3, Len(SplitLines(text)))

\* const [, waveHeight, , swellDir, wavePeriod] = lines[0].trim().split(/\s+/)
OldColumns(parts) ==
    [waveHeight |-> Part(parts, 1), swellDir |-> Part(parts, 3),
     wavePeriod |-> Part(parts, 4)]

\* Where the old handler goes on to when the await `position` ends.  It looks
\* at no status; lines[0] is undefined, and lines[0].trim() throws, when the
\* text has fewer than three lines.
OldPosition(position) ==
    CASE position = "buoy" ->
             IF replies.buoy.kind = "response" THEN "buoyText" ELSE "done"
      [] position = "buoyText" ->
             IF replies.buoy.text /\ Len(OldLines(buoyText)) > 0 THEN "weather" ELSE "done"
      [] position = "weather" ->
             IF replies.weather.kind = "response" THEN "weatherJson" ELSE "done"
      [] OTHER -> "done"

OldUnchanged ==
    UNCHANGED <<buoyFeed, buoyText, replies, marineData, route, settled, caches, scoreVars,
                durationVars, tideVars, tideFetchVars, cacheVars>>

\* Whether the run from `position` ends in the catch block.
OldThrows(position) == OldPosition(position) = "done"

\* From the end of "await fetch" of the buoy feed.
OldAwaitBuoy ==
    /\ route = "old"
    /\ pc = "buoy"
    /\ pc' = OldPosition(pc)
    /\ responses' = IF OldThrows(pc) THEN Append(responses, OldErrorResponse) ELSE responses
    /\ UNCHANGED <<buoyOut, calls>>
    /\ OldUnchanged

\* From the end of "await buoyRes.text()" to the fetch of the weather API;
\* the three columns are kept as texts.
OldAwaitBuoyText ==
    /\ route = "old"
    /\ pc = "buoyText"
    /\ pc' = OldPosition(pc)
    /\ responses' = IF OldThrows(pc) THEN Append(responses, OldErrorResponse) ELSE responses
    /\ buoyOut' = IF OldThrows(pc) THEN buoyOut
                  ELSE OldColumns(SplitSpace(Trim(OldLines(buoyText)[1])))
    /\ UNCHANGED calls
    /\ OldUnchanged

\* From the end of "await fetch" of the weather API.
OldAwaitWeather ==
    /\ route = "old"
    /\ pc = "weather"
    /\ pc' = OldPosition(pc)
    /\ responses' = IF OldThrows(pc) THEN Append(responses, OldErrorResponse) ELSE responses
    /\ UNCHANGED <<buoyOut, calls>>
    /\ OldUnchanged

\* The reading the old handler scores: the wind as the weather API gives it,
\* and a tide that is always 'Mid'.
OldData(columns, weather) ==
    SurfData(ParseFloat(columns.waveHeight), ParseFloat(columns.wavePeriod),
             ParseFloat(columns.swellDir), weather.current.wind_direction_10m,
             weather.current.wind_speed_10m, "Mid", Undefined)

\* From the end of "await weatherRes.json()" to the response; a body that is
\* not JSON throws, and so does weather.current.wind_speed_10m of a body
\* without the current block.
OldAwaitWeatherJson ==
    /\ route = "old"
    /\ pc = "weatherJson"
    /\ pc' = OldPosition(pc)
    /\ IF NoCurrent(replies.weather)
       THEN /\ responses' = Append(responses, OldErrorResponse)
            /\ calls' = calls
       ELSE LET data == OldData(buoyOut, replies.weather.body)
            IN  /\ responses' = Append(responses,
                                       OldReport(data, OldCalculateSurfability(data)))
                /\ calls' = Scored(data)
    /\ UNCHANGED buoyOut
    /\ OldUnchanged

-----------------------------------------------------------------------------
(* One request, served by one of the handlers *)

HandlerNext ==
    \/ FirstAwaitBuoy \/ FirstAwaitBuoyText
    \/ FirstAwaitMarine \/ FirstAwaitMarineJson
    \/ FirstAwaitWeather \/ FirstAwaitWeatherJson
    \/ AwaitTide \/ AwaitTideLevel \/ AwaitTidePredictions \/ AwaitTideData
    \/ AwaitBuoy \/ AwaitBuoyText
    \/ AwaitMarine \/ AwaitMarineJson
    \/ AwaitWeather \/ AwaitWeatherJson
    \/ getSurfability \/ TideDataFetched
    \/ MarineDataFetched \/ MarineDataRead
    \/ WeatherDataFetched \/ WeatherDataRead
    \/ BuoyDataFetched \/ BuoyDataRead
    \/ ControllerSettled \/ ControllerResponds
    \/ OldAwaitBuoy \/ OldAwaitBuoyText \/ OldAwaitWeather \/ OldAwaitWeatherJson

SpecHandler == HandlerInit /\ [][HandlerNext]_vars

\* Where the controller goes on to from its position.
ControllerPosition(position) ==
    CASE position = "request" ->
             IF Issues(replies.query) # <<>> THEN "done" ELSE "allSettled"
      [] position = "allSettled" -> "response"
      [] OTHER -> "done"

\* Every await of the handlers of index.ts and of the services of the
\* controller ends: each of their fetches resolves or, at the latest when its
\* AbortSignal.timeout fires, rejects, and the body of a response is read or
\* fails to be; so a handler that has not answered moves on, and so does a
\* service method that has not settled.  The fetches of the old handler have
\* no timeout, and nothing is assumed of them.
Advance ==
    /\ pc # "done"
    /\ \/ route \in IndexRoutes /\ pc' = NextPosition(pc)
       \/ /\ route = "controller"
          /\ pc = "allSettled" => AllSettled
          /\ pc' = ControllerPosition(pc)
Settle ==
    /\ route = "controller"
    /\ pc = "allSettled"
    /\ \E method \in Methods :
          /\ ~IsSettled(settled[method])
          /\ JobQueued => method = "getTideData"
          /\ settled' = [settled EXCEPT ![method] = Resumed(method)]
SpecHandlerFair == SpecHandler /\ WF_pc(Advance) /\ WF_settled(Settle)
-----------------------------------------------------------------------------
(* Claims about the scoring engine, under SpecScore *)

\* The whole numbers 1 to 360 and the halves 0.5, 1.5 and 2.5 as numbers.
Literal == [n \in 1 .. 360 |-> Whole(n)] \o <<>>
Half == Dec(5, 1)
OneAndHalf == Dec(15, 1)
TwoAndHalf == Dec(25, 1)

\* lo <= x <= hi and lo <= x < hi of numbers, by the order of their values.
Within(x, lo, hi) == IsNum(x) /\ LessOrEqual(lo, x) /\ LessOrEqual(x, hi)
Below(x, lo, hi) == IsNum(x) /\ LessOrEqual(lo, x) /\ Less(x, hi)

\* The component table as the specification writes it.
RefH(w) ==
    IF Within(w, Literal[2], Literal[8]) THEN 25
    ELSE IF Below(w, OneAndHalf, Literal[2]) THEN 15 ELSE 0
RefP(p) ==
    IF LessOrEqual(Literal[10], p) THEN 25
    ELSE IF Below(p, Literal[7], Literal[10]) THEN 20
    ELSE IF Below(p, Literal[5], Literal[7]) THEN 10 ELSE 0
RefD(d) ==
    IF Within(d, Literal[45], Literal[135]) THEN 20
    ELSE IF Below(d, Literal[30], Literal[45])
            \/ (Less(Literal[135], d) /\ LessOrEqual(d, Literal[150])) THEN 10
    ELSE 0
RefW(s, d) ==
    IF Less(s, Literal[5]) THEN 15
    ELSE IF Within(d, Literal[225], Literal[315])
         THEN (IF LessOrEqual(s, Literal[15]) THEN 20 ELSE 10)
    ELSE IF Less(s, Literal[10]) THEN 10 ELSE 0
RefT(t) == IF t \in {"Mid", "Rising", "Falling"} THEN 10 ELSE 0
RefB(h) == IF Within(h, Half, TwoAndHalf) THEN 5 ELSE 0
RefScore(r) ==
    RefH(r.waveHeight) + RefP(r.wavePeriod) + RefD(r.swellDirection)
    + RefW(r.windSpeed, r.windDirection) + RefT(r.tide) + RefB(r.tideHeight)

\* C1: for every fully populated reading the score is H + P + D + W + T (+ B
\* when a tide height is carried), each read off the component table; the
\* reading (5 ft, 11 s, 90, 3 kt, 0, Mid) scores 95 and (0.5 ft, 3 s, 0, 20 kt,
\* 0, Low) scores 0.
Populated(r) == \A f \in NumericFields : IsNum(r[f])

C1_ScoreIsSumOfComponents ==
    pc = "done" =>
        /\ Populated(reading) => result.score = RefScore(reading)
        /\ reading = Example95 => result.score = 95
        /\ reading = Example0 => result.score = 0

C1_Witness ==
    /\ pc = "done"
    /\ reading = Example95
    /\ result.score = 25 + 25 + 20 + 15 + 10

\* C2: rating is Poor iff score < 45, Marginal iff 45..64, Good iff 65..79,
\* Excellent iff score >= 80; surfable iff score >= 45, so surfable is false
\* exactly when the rating is Poor.
C2_RatingTiers ==
    pc = "done" =>
        /\ (result.rating = "Poor") <=> (result.score < 45)
        /\ (result.rating = "Marginal") <=> (45 <= result.score /\ result.score <= 64)
        /\ (result.rating = "Good") <=> (65 <= result.score /\ result.score <= 79)
        /\ (result.rating = "Excellent") <=> (result.score >= 80)
        /\ result.surfable <=> (result.score >= 45)
        /\ (~result.surfable) <=> (result.rating = "Poor")

C2_Witness ==
    /\ pc = "done"
    /\ result.score = 45
    /\ result.rating = "Marginal"
    /\ result.surfable

\* C3: the score is an integer in [0, 115], with or without a tide height.
C3_ScoreInRange ==
    pc = "done" => result.score \in 0 .. 115

C3_Witness ==
    /\ pc = "done"
    /\ reading.tideHeight # Undefined
    /\ result.score = 105

\* The tier whose label list the flavor label is drawn from.
TierOf(score) ==
    IF score >= 80 THEN "excellent"
    ELSE IF score >= 65 THEN "good"
    ELSE IF score >= 45 THEN "marginal" ELSE "poor"

Labels(tier) == {surfRatings[tier][i] : i \in 1 .. Len(surfRatings[tier])}

\* C4: score, rating and surfable do not depend on the random draw: whatever
\* draw a second call makes, it returns the same three; the draw only selects a
\* label within the list of the tier the score determines.
C4_DrawOnlySelectsLabel ==
    pc = "done" =>
        /\ result.funRating \in Labels(TierOf(result.score))
        /\ \A u \in Draws :
              LET again == calculateSurfability(reading, u)
              IN  /\ again.score = result.score
                  /\ again.rating = result.rating
                  /\ again.surfable = result.surfable
                  /\ again.funRating \in Labels(TierOf(result.score))

C4_Witness ==
    /\ pc = "done"
    /\ \E u \in Draws :
          /\ calculateSurfability(reading, u).funRating # result.funRating
          /\ calculateSurfability(reading, u).score = result.score

\* C5: the score is always within 0-100, also for a reading that carries the
\* tide height.
C5_ScoreWithin100 ==
    pc = "done" => result.score \in 0 .. 100

-----------------------------------------------------------------------------
(* Claims about the buoy parser, under SpecBuoy *)

\* What each column text of the feeds stands for; the markers of a missing
\* value stand for no number.
ColumnTable ==
    {<<Str("0.8"), Dec(8, 1)>>, <<Str("1.0"), Whole(1)>>, <<Str("0.0"), Zero(FALSE)>>,
     <<Str("20.0"), Whole(20)>>, <<Str("20.1"), Dec(201, 1)>>, <<Str("-0.1"), Dec(-1, 1)>>,
     <<Str("10.5"), Dec(105, 1)>>, <<Str("2.0"), Whole(2)>>, <<Str("1.9"), Dec(19, 1)>>,
     <<Str("30.0"), Whole(30)>>, <<Str("30.1"), Dec(301, 1)>>, <<Str("4.1"), Dec(41, 1)>>,
     <<Str("98"), Whole(98)>>, <<Str("0"), Zero(FALSE)>>, <<Str("1.2"), Dec(12, 1)>>,
     <<Str("9.1"), Dec(91, 1)>>, <<Str("5.0"), Whole(5)>>, <<Str("110"), Whole(110)>>,
     <<Str("0.2"), Dec(2, 1)>>, <<Str("0.7"), Dec(7, 1)>>, <<Str("8.3"), Dec(83, 1)>>,
     <<Str("20.05"), Dec(2005, 2)>>, <<Str("-0.05"), Dec(-5, 2)>>,
     <<Str("1.25"), Dec(125, 2)>>, <<Str("1.95"), Dec(195, 2)>>,
     <<Str("30.05"), Dec(3005, 2)>>, <<Str("2e0"), Whole(2)>>,
     <<Str("0.60959999"), Dec(60959999, 8)>>, <<Str("99999999"), Whole(99999999)>>,
     <<Str("2025"), Whole(2025)>>, <<Str("06"), Whole(6)>>, <<Str("13"), Whole(13)>>,
     <<Str("20"), Whole(20)>>, <<Str("26"), Whole(26)>>,
     <<Str("Infinity"), Infinity>>, <<<<>>, NaN>>, <<Str("MM"), NaN>>,
     <<Str("N/A"), NaN>>, <<Str("E"), NaN>>}
ColumnValue(token) == (CHOOSE entry \in ColumnTable : entry[1] = token)[2]

\* Column k (from 0) of a row; a column the row does not have is no number.
Column(row, k) == IF k + 1 <= Len(row) THEN ColumnValue(row[k + 1]) ELSE NaN

\* The rows a feed offers as data: those that are not blank and carry no "MM"
\* marker (which the parser takes for a header line); the first is selected.
Blank(row) == \A k \in 1 .. Len(row) : row[k] = <<>>
OfferedRows(feed) ==
    {i \in 1 .. Len(feed.rows) :
        ~Blank(feed.rows[i])
        /\ \A k \in 1 .. Len(feed.rows[i]) : feed.rows[i][k] # MissingMarker}
HasSelectedRow(feed) == OfferedRows(feed) # {}
SelectedRow(feed) == feed.rows[SetMin(OfferedRows(feed))]

FeedLineCount(feed) == Len(feed.head) + Len(feed.rows)
FeedHasHeader(feed) ==
    \E i \in 1 .. Len(feed.head) : feed.head[i] \in {HeaderLine, MetHeaderLine}

InPeriodRange(p) == Within(p, Literal[2], Literal[30])
InHeightRange(h) == Within(h, Zero(FALSE), Literal[20])

\* A height in metres times 3.28084, and 20 m in feet.
InFeet(h) == Times(h, FeetPerMeter)
TwentyMetres == Dec(656168, 4)

\* The period the specification selects: SwP when usable, else APD.
ReferencePeriod(row) ==
    IF InPeriodRange(Column(row, 7)) THEN Column(row, 7) ELSE Column(row, 13)

IsReading(out) == DOMAIN out = {"waveHeight", "swellDirection", "wavePeriod"}
Unavailable(out) == out = Null

\* C6: parseBuoyData returns a reading or the unavailable result for every
\* feed text, and unavailable for a feed of fewer than 3 lines, for a feed
\* without a header line holding WVHT and SwP or APD, and for a feed whose
\* selected data line has fewer than 8 fields.
C6_ParseNeverFails ==
    pc = "done" =>
        /\ IsReading(buoyOut) \/ Unavailable(buoyOut)
        /\ FeedLineCount(buoyFeed) < 3 => Unavailable(buoyOut)
        /\ ~FeedHasHeader(buoyFeed) => Unavailable(buoyOut)
        /\ (HasSelectedRow(buoyFeed) /\ Len(SelectedRow(buoyFeed)) < 8)
              => Unavailable(buoyOut)

C6_Witness ==
    /\ pc = "done"
    /\ FeedHasHeader(buoyFeed)
    /\ FeedLineCount(buoyFeed) >= 3
    /\ HasSelectedRow(buoyFeed)
    /\ Len(SelectedRow(buoyFeed)) = 7
    /\ Unavailable(buoyOut)

\* C7: a returned reading has a period in [2, 30] s, a height of [0, 20] m in
\* feet and a numeric direction; a feed whose selected line has a missing or
\* non-numeric height, chosen period or direction, or a height or period out
\* of range, gives unavailable.
C7_ReadingsAreValidated ==
    pc = "done" =>
        /\ IsReading(buoyOut) =>
              /\ Within(buoyOut.wavePeriod, Literal[2], Literal[30])
              /\ Within(buoyOut.waveHeight, Zero(FALSE), TwentyMetres)
              /\ ~IsNaN(buoyOut.swellDirection)
        /\ HasSelectedRow(buoyFeed) =>
              LET row == SelectedRow(buoyFeed)
              IN  ( \/ ~InHeightRange(Column(row, 5))
                    \/ ~InPeriodRange(ReferencePeriod(row))
                    \/ IsNaN(Column(row, 14)) ) => Unavailable(buoyOut)

C7_Witness ==
    /\ pc = "done"
    /\ IsReading(buoyOut)
    /\ buoyOut.wavePeriod = Literal[30]
    /\ buoyOut.waveHeight = TwentyMetres

\* C8: a reading returned for a 15-column line is (WVHT * 3.28084, chosen
\* period, MWD): the period is SwP when SwP is numeric and within [2, 30],
\* else APD; WVHT = 1.0 gives 3.28084 ft within 0.001; when neither period is
\* usable the result is unavailable.
C8_ReadingMatchesColumns ==
    (pc = "done" /\ HasSelectedRow(buoyFeed) /\ Len(SelectedRow(buoyFeed)) = 15) =>
        LET row == SelectedRow(buoyFeed)
        IN  /\ IsReading(buoyOut) =>
                  /\ buoyOut.waveHeight = InFeet(Column(row, 5))
                  /\ buoyOut.wavePeriod = ReferencePeriod(row)
                  /\ InPeriodRange(Column(row, 7)) => buoyOut.wavePeriod = Column(row, 7)
                  /\ buoyOut.swellDirection = Column(row, 14)
                  /\ Column(row, 5) = Literal[1] =>
                        /\ Less(Dec(327984, 5), buoyOut.waveHeight)
                        /\ Less(buoyOut.waveHeight, Dec(328184, 5))
            /\ (~InPeriodRange(Column(row, 7)) /\ ~InPeriodRange(Column(row, 13)))
                  => Unavailable(buoyOut)

C8_Witness ==
    /\ pc = "done"
    /\ HasSelectedRow(buoyFeed)
    /\ Len(SelectedRow(buoyFeed)) = 15
    /\ IsReading(buoyOut)
    /\ Column(SelectedRow(buoyFeed), 5) = Literal[1]
    /\ ~InPeriodRange(Column(SelectedRow(buoyFeed), 7))
    /\ buoyOut.wavePeriod = Column(SelectedRow(buoyFeed), 13)

\* The most recent observation of a feed: its first row that is not blank.
ObservationRows(feed) == {i \in 1 .. Len(feed.rows) : ~Blank(feed.rows[i])}
MostRecentRow(feed) == feed.rows[SetMin(ObservationRows(feed))]

\* C22: a reading returned is the one of the most recent observation, the
\* first line of the feed that is neither blank nor a comment or header line;
\* an older observation is never used in its place.
C22_ReadingIsMostRecent ==
    (pc = "done" /\ IsReading(buoyOut)) =>
        /\ ObservationRows(buoyFeed) # {}
        /\ LET row == MostRecentRow(buoyFeed)
           IN  /\ IsNum(Column(row, 5))
               /\ buoyOut.waveHeight = InFeet(Column(row, 5))
               /\ buoyOut.wavePeriod = ReferencePeriod(row)
               /\ buoyOut.swellDirection = Column(row, 14)

\* C23: a well-formed data line of 13, 14 or 15 columns, whose last column
\* is the mean wave direction and whose last but one is the average period,
\* gives a reading with that direction, and with that period when the swell
\* period is not usable.
C23_ColumnLayoutsTolerated ==
    (/\ pc = "done"
     /\ FeedHasHeader(buoyFeed)
     /\ HasSelectedRow(buoyFeed)
     /\ Len(SelectedRow(buoyFeed)) \in {13, 14, 15}) =>
        LET row == SelectedRow(buoyFeed)
            n == Len(row)
            direction == Column(row, n - 1)
            averagePeriod == Column(row, n - 2)
            wellFormed == /\ InHeightRange(Column(row, 5))
                          /\ ~IsNaN(direction)
                          /\ InPeriodRange(Column(row, 7)) \/ InPeriodRange(averagePeriod)
        IN  wellFormed =>
                /\ IsReading(buoyOut)
                /\ buoyOut.swellDirection = direction
                /\ ~InPeriodRange(Column(row, 7)) => buoyOut.wavePeriod = averagePeriod

-----------------------------------------------------------------------------
(* Claims about the forecast window summarizer, under SpecDuration *)

\* The score of an hour of each kind, under each tide.
KindScore(kind, tide) ==
    calculateSurfability(HourSurfData(HourlyForecast(kind, 0), tide), 0).score
KindScores ==
    [Low |-> [clean |-> KindScore("clean", "Low"), fair |-> KindScore("fair", "Low"),
              flat |-> KindScore("flat", "Low")],
     Mid |-> [clean |-> KindScore("clean", "Mid"), fair |-> KindScore("fair", "Mid"),
              flat |-> KindScore("flat", "Mid")]]

\* The hours the summary is about: the first HorizonHours hours of the
\* forecast that are not before the clock, as scores.
WindowScores ==
    LET kinds == IF forecasts.t = "runs" THEN KindsOf(forecasts.runs) ELSE <<>>
        ahead == {i \in 1 .. Len(kinds) : i - 1 >= nowT}
        first == IF ahead = {} THEN 1 ELSE SetMin(ahead)
        count == IF Cardinality(ahead) < HorizonHours
                 THEN Cardinality(ahead) ELSE HorizonHours
    IN  [i \in 1 .. count |-> KindScores[tideArg][kinds[first + i - 1]]]

IsGoodHour(score) == score >= 65
IsMarginalHour(score) == score >= 45 /\ score < 65

\* The length of the longest block of consecutive hours of one class.
LongestBlock(scores, InClass(_)) ==
    LET n == Len(scores)
        starts == {i \in 1 .. n : InClass(scores[i]) /\ (i = 1 \/ ~InClass(scores[i - 1]))}
        ends == {i \in 1 .. n : InClass(scores[i]) /\ (i = n \/ ~InClass(scores[i + 1]))}
    IN  IF starts = {} THEN 0
        ELSE SetMax({SetMin({e \in ends : e >= b}) - b + 1 : b \in starts})

RefG == LongestBlock(WindowScores, IsGoodHour)
RefM == LongestBlock(WindowScores, IsMarginalHour)
RefS == Cardinality({i \in 1 .. Len(WindowScores) : WindowScores[i] >= 45})

FlatMessageSet == {flatMessages[i] : i \in 1 .. Len(flatMessages)}

ArgIsMissingOrEmpty ==
    forecasts.t \in {"null", "undefined"} \/ (forecasts.t = "runs" /\ forecasts.runs = <<>>)

\* C9: given a missing or empty forecast array, getConditionsDuration returns
\* exactly 'No forecast data available.', having scored no hour and drawn no
\* random number.
C9_NoForecastData ==
    (pc = "done" /\ ArgIsMissingOrEmpty)
        => /\ duration.message = "No forecast data available."
           /\ duration.scored = 0
           /\ duration.draws = 0

C9_Witness ==
    /\ pc = "done"
    /\ forecasts.t = "runs" /\ forecasts.runs = <<>>
    /\ duration.message = "No forecast data available."

\* C10: for a non-empty forecast array the message follows, in this priority
\* order, from the longest good streak G, the longest marginal streak M and
\* the count S of surfable hours: G >= 8, G >= 6, G >= 3, G >= 1, M >= 8,
\* M >= 4, M >= 2, S >= 1, and otherwise one of the seven flat messages.  So
\* one good hour outranks any marginal streak, a full day of good hours gives
\* the most-of-the-day message and a window without a surfable hour a flat one.
C10_MessagePriority ==
    (pc = "done" /\ ~ArgIsMissingOrEmpty) =>
        LET scores == WindowScores
            G == LongestBlock(scores, IsGoodHour)
            M == LongestBlock(scores, IsMarginalHour)
            S == Cardinality({i \in 1 .. Len(scores) : scores[i] >= 45})
            message == duration.message
        IN  /\ G >= 8 => message = "Good surf for most of the day!"
            /\ (G >= 6 /\ G < 8)
                  => message = "Good surf for " \o ToString(G) \o " solid hours!"
            /\ (G >= 3 /\ G < 6)
                  => message = "Good surf for about " \o ToString(G) \o " hours"
            /\ (G >= 1 /\ G < 3)
                  => message = "Brief good surf window (~" \o ToString(G) \o "hr)"
            /\ (G = 0 /\ M >= 8) => message = "Marginal conditions for most of the day"
            /\ (G = 0 /\ M >= 4 /\ M < 8)
                  => message = "Marginal conditions for " \o ToString(M) \o " hours"
            /\ (G = 0 /\ M >= 2 /\ M < 4)
                  => message = "Sketchy conditions for " \o ToString(M) \o " hours"
            /\ (G = 0 /\ M < 2 /\ S >= 1) => message = "Brief surfable windows expected"
            /\ (G = 0 /\ M < 2 /\ S = 0) => message \in FlatMessageSet
            /\ (Len(scores) = HorizonHours /\ \A i \in 1 .. HorizonHours : scores[i] >= 65)
                  => message = "Good surf for most of the day!"
            /\ (\A i \in 1 .. Len(scores) : scores[i] < 45) => message \in FlatMessageSet

\* A day whose longest good streak is exactly eight hours, beside a longer
\* marginal streak.
C10_Witness ==
    /\ pc = "done"
    /\ ~ArgIsMissingOrEmpty
    /\ RefG = 8
    /\ RefM > 8
    /\ duration.message = "Good surf for most of the day!"

\* C18: the two maxima are exact.  Over the first HorizonHours hours of the
\* array whose time is not before the clock, and whatever follows them, the
\* longest good streak is the length of the longest block of consecutive hours
\* scoring 65 or more, and the longest marginal streak that of the longest
\* block of consecutive hours scoring from 45 to below 65; an hour below 45 or
\* of the other class ends a block.
C18_StreaksAreExact ==
    (pc = "done" /\ ~ArgIsMissingOrEmpty) =>
        LET scores == WindowScores
        IN  /\ duration.scored = Len(scores)
            /\ duration.maxGoodStreak = LongestBlock(scores, IsGoodHour)
            /\ duration.maxMarginalStreak = LongestBlock(scores, IsMarginalHour)

\* Two good hours, a flat hour, then good hours up to and beyond the horizon:
\* two good streaks are recorded, the shorter one first, and the longer one
\* ends where the window ends.
C18_Witness ==
    /\ pc = "done"
    /\ forecasts.t = "runs"
    /\ Len(forecasts.runs) = MaxRuns
    /\ forecasts.runs[1] = [kind |-> "clean", hours |-> 2]
    /\ forecasts.runs[2] = [kind |-> "flat", hours |-> 1]
    /\ forecasts.runs[3].kind = "clean"
    /\ nowT = 0
    /\ Len(KindsOf(forecasts.runs)) > HorizonHours
    /\ duration.scored = HorizonHours
    /\ duration.maxGoodStreak = HorizonHours - 3
    /\ duration.maxMarginalStreak = 0

\* C19: given a forecast array that is not empty and has no hour at or after
\* the clock, getConditionsDuration returns 'No forecast data available.'.
C19_AllPastIsNoData ==
    (/\ pc = "done"
     /\ forecasts.t = "runs"
     /\ forecasts.runs # <<>>
     /\ Len(KindsOf(forecasts.runs)) - 1 < nowT)
        => duration.message = "No forecast data available."

\* The states of the scan over the scores of the window: before the first
\* hour and after each hour.
RECURSIVE ScanStates(_, _)
ScanStates(scores, n) ==
    IF n = 0 THEN <<ScanStart>>
    ELSE LET before == ScanStates(scores, n - 1)
         IN  Append(before, ScanStep(before[n], scores[n]))

RECURSIVE SumOf(_)
SumOf(streaks) == IF streaks = <<>> THEN 0 ELSE Head(streaks) + SumOf(Tail(streaks))

\* C29: after each hour of the scan at most one of the two open counters is
\* not zero, every recorded streak is at least one hour long, and the
\* recorded streaks and the open counters add up to the number of hours
\* scoring 45 or more seen so far, which is at most HorizonHours.
C29_ScanInvariant ==
    (pc = "done" /\ ~ArgIsMissingOrEmpty) =>
        LET scores == WindowScores
            states == ScanStates(scores, Len(scores))
        IN  \A n \in 0 .. Len(scores) :
                LET st == states[n + 1]
                    surfable == Cardinality({i \in 1 .. n : scores[i] >= 45})
                IN  /\ st.currentGoodStreak = 0 \/ st.currentMarginalStreak = 0
                    /\ st.currentGoodStreak >= 0 /\ st.currentMarginalStreak >= 0
                    /\ \A i \in 1 .. Len(st.goodStreaks) : st.goodStreaks[i] >= 1
                    /\ \A i \in 1 .. Len(st.marginalStreaks) : st.marginalStreaks[i] >= 1
                    /\ SumOf(st.goodStreaks) + SumOf(st.marginalStreaks)
                           + st.currentGoodStreak + st.currentMarginalStreak = surfable
                    /\ st.totalSurfableHours = surfable
                    /\ surfable <= HorizonHours

\* Marginal hours, then good hours to the end of a full window: a marginal
\* streak has been recorded and a good one is open when the scan ends.
C29_Witness ==
    /\ pc = "done"
    /\ forecasts.t = "runs"
    /\ duration.scored = HorizonHours
    /\ duration.maxMarginalStreak = 8
    /\ duration.maxGoodStreak = HorizonHours - 8

-----------------------------------------------------------------------------
(* Claims about the tide estimate, under SpecTide *)

\* C11: getSimpleTideState is total in the hour modulo 12: at every hour
\* 0..23 it returns one of Low, Rising, Mid, Falling, High and never Unknown;
\* phase < 2 or > 10 gives Low, 5..7 High, 2..4 Rising, 8..10 Falling, so the
\* hours h and h + 12 give the same state.
C11_TideStateByPhase ==
    tideAt # -1 =>
        LET phase == tideAt % 12
        IN  /\ tideState \in {"Low", "Rising", "Mid", "Falling", "High"}
            /\ tideState # "Unknown"
            /\ (phase < 2 \/ phase > 10) <=> tideState = "Low"
            /\ (5 <= phase /\ phase <= 7) <=> tideState = "High"
            /\ (2 <= phase /\ phase <= 4) <=> tideState = "Rising"
            /\ (8 <= phase /\ phase <= 10) <=> tideState = "Falling"
            /\ tideState = getSimpleTideState((tideAt + 12) % 24)

\* The estimate of 22:00, the last hour of a falling tide.
C11_Witness ==
    /\ tideAt = 22
    /\ tideState = "Falling"

-----------------------------------------------------------------------------
(* Claims about fetchTideData, under SpecTideFetch *)

\* A request of the tide station that failed: it was rejected, answered with
\* a status that is not 2xx, or answered with a body that is not JSON or
\* holds no data.
ReplyFailed(reply) ==
    \/ reply.kind = "rejected"
    \/ ~reply.ok
    \/ ~reply.json
    \/ ~reply.body.has
    \/ reply.body.items = <<>>

\* C12: on any failure of the tide station (a rejected request, a status that
\* is not 2xx on either request, an empty or unparseable payload)
\* fetchTideData returns the default snapshot: currentHeight 1.5, state Mid,
\* nextHigh null, nextLow null.
C12_FailureGivesDefault ==
    (pc = "done" /\ (ReplyFailed(tideReplies.current) \/ ReplyFailed(tideReplies.predictions)))
        => tideData = DefaultTideData

\* What the level texts of the station's replies stand for, in thousandths of
\* a foot and as a number (an empty text stands for no number); "0" is the
\* height fetchTideData starts from.
LevelTable ==
    {<<Str("0"), 0, Zero(FALSE)>>,
     <<Str("0.8"), 800, Dec(8, 1)>>, <<Str("0.9"), 900, Dec(9, 1)>>,
     <<Str("1.0"), 1000, Whole(1)>>, <<Str("1.3"), 1300, Dec(13, 1)>>,
     <<Str("1.4"), 1400, Dec(14, 1)>>, <<Str("1.5"), 1500, Dec(15, 1)>>,
     <<Str("1.55"), 1550, Dec(155, 2)>>, <<Str("1.6"), 1600, Dec(16, 1)>>,
     <<Str("1.75"), 1750, Dec(175, 2)>>,
     <<Str("1.8"), 1800, Dec(18, 1)>>, <<Str("3.1"), 3100, Dec(31, 1)>>,
     <<Str("3.3"), 3300, Dec(33, 1)>>, <<Str("3.4"), 3400, Dec(34, 1)>>,
     <<Str("4.0"), 4000, Whole(4)>>, <<Str("2.0"), 2000, Whole(2)>>,
     <<Str("0.4"), 400, Dec(4, 1)>>, <<Str("1.2"), 1200, Dec(12, 1)>>}
LevelValue(token) == (CHOOSE entry \in LevelTable : entry[1] = token)[2]
LevelNumber(token) == (CHOOSE entry \in LevelTable : entry[1] = token)[3]
Thousandths(x) == (CHOOSE entry \in LevelTable : entry[3] = x)[2]

\* fetchTideData did not end in its catch block.
TideFetchDidNotFail ==
    /\ tideReplies.current.kind = "response"
    /\ tideReplies.predictions.kind = "response"
    /\ tideReplies.current.ok => tideReplies.current.json
    /\ tideReplies.predictions.ok => tideReplies.predictions.json

\* The predictions of the reply, none when the reply holds none.
RepliedPredictions ==
    IF tideReplies.predictions.ok /\ tideReplies.predictions.body.has
    THEN tideReplies.predictions.body.items ELSE <<>>

\* The rule of classification, for a given test of "near the midpoint" on
\* the current height and the heights of the next high and low (thousandths
\* of a foot): nextHigh and nextLow are the first prediction of type H and of
\* type L, in list order, whose time is strictly after now; with both known
\* the state is Mid when the test holds; otherwise High Rising (height above
\* 1.5) or Rising when the high comes first, and Low Falling (height below
\* 1.0) or Falling when it does not; with one of them unknown the state is
\* Unknown; the state is never High or Low.
TideClassifiedBy(IsNearMid(_, _, _)) ==
    (pc = "done" /\ TideFetchDidNotFail) =>
        LET preds == RepliedPredictions
            highs == {i \in 1 .. Len(preds) : preds[i].type = "H" /\ preds[i].t > tideNow}
            lows == {i \in 1 .. Len(preds) : preds[i].type = "L" /\ preds[i].t > tideNow}
            high == preds[SetMin(highs)]
            low == preds[SetMin(lows)]
            known == IsNum(tideData.currentHeight)
            height == IF known THEN Thousandths(tideData.currentHeight) ELSE 0
            mid == known /\ IsNearMid(height, LevelValue(high.v), LevelValue(low.v))
        IN  /\ highs = {} => tideData.nextHigh = Null
            /\ lows = {} => tideData.nextLow = Null
            /\ highs # {} =>
                  tideData.nextHigh = [time |-> high.t, height |-> LevelNumber(high.v)]
            /\ lows # {} =>
                  tideData.nextLow = [time |-> low.t, height |-> LevelNumber(low.v)]
            /\ (highs = {} \/ lows = {}) => tideData.state = "Unknown"
            /\ (highs # {} /\ lows # {}) =>
                  /\ mid => tideData.state = "Mid"
                  /\ (~mid /\ high.t < low.t /\ known /\ height > 1500)
                        => tideData.state = "High Rising"
                  /\ (~mid /\ high.t < low.t /\ ~(known /\ height > 1500))
                        => tideData.state = "Rising"
                  /\ (~mid /\ ~(high.t < low.t) /\ known /\ height < 1000)
                        => tideData.state = "Low Falling"
                  /\ (~mid /\ ~(high.t < low.t) /\ ~(known /\ height < 1000))
                        => tideData.state = "Falling"
            /\ tideData.state \notin {"High", "Low"}

Distance(a, b) == IF a < b THEN b - a ELSE a - b

\* |height - (h + l) / 2| < |h - l| / 4 of the decimals themselves, times four.
WithinQuarter(height, h, l) == Distance(4 * height, 2 * (h + l)) < Distance(h, l)
OnQuarter(height, h, l) == Distance(4 * height, 2 * (h + l)) = Distance(h, l)

\* The heights exactly a quarter of the range from the midpoint for which
\* Math.abs(height - (h + l) / 2) < Math.abs(h - l) * 0.25 is true of the
\* doubles nearest to the decimals, as <<height, h, l>>; for the other heights
\* on a quarter among the levels and predictions above (1.3 between 4.0 and
\* 0.4, 1.6 between 2.0 and 0.4, 1.4 between 2.0 and 1.2, 1.75 between 4.0 or
\* 2.0 and 1.0) it is false.
MidOnQuarter ==
    {<<800, 2000, 400>>, <<3100, 4000, 400>>, <<1800, 2000, 1200>>, <<3300, 4000, 1200>>}

WithinQuarterOfDoubles(height, h, l) ==
    WithinQuarter(height, h, l) \/ (OnQuarter(height, h, l) /\ <<height, h, l>> \in MidOnQuarter)

\* C24, as stated: on its non-failing path fetchTideData classifies by the
\* rule above, the state being Mid when the current height is nearer to the
\* midpoint of the two heights than a quarter of their distance.
C24_TideClassification == TideClassifiedBy(WithinQuarter)

\* C24, amended: fetchTideData classifies by the rule above, the test for Mid
\* being made on doubles: a height nearer to the midpoint than a quarter of
\* the range is Mid, one farther is not, and one exactly a quarter away is Mid
\* or not as the roundings of its three sums fall (0.8 between 2.0 and 0.4 is
\* Mid, 1.6 is not).
C24_TideClassificationOfDoubles == TideClassifiedBy(WithinQuarterOfDoubles)

\* A prediction at the very hour of the clock is passed over; the current
\* height 3.1 lies a quarter of the range above the midpoint of the next high
\* (4.0) and low (0.4), and the state is Mid.
C24_Witness ==
    /\ pc = "done"
    /\ TideFetchDidNotFail
    /\ tideNow = 6
    /\ Len(RepliedPredictions) = 3
    /\ RepliedPredictions[1].type = "H"
    /\ tideData.nextHigh = [time |-> 12, height |-> Whole(4)]
    /\ tideData.nextLow = [time |-> 18, height |-> Dec(4, 1)]
    /\ tideData.currentHeight = Dec(31, 1)
    /\ tideData.state = "Mid"

\* No live observation: the request for the latest water level was answered
\* with a status that is not 2xx, or with a body without data.
NoLiveObservation ==
    /\ tideReplies.current.kind = "response"
    /\ \/ ~tideReplies.current.ok
       \/ /\ tideReplies.current.json
          /\ ~tideReplies.current.body.has \/ tideReplies.current.body.items = <<>>

\* C25: without a live observation and with predictions, the current height
\* fetchTideData returns is the height of the prediction nearest to now.
C25_HeightFromPredictions ==
    (pc = "done" /\ TideFetchDidNotFail /\ NoLiveObservation /\ RepliedPredictions # <<>>) =>
        LET preds == RepliedPredictions
            nearest == {i \in 1 .. Len(preds) :
                          \A j \in 1 .. Len(preds) :
                              Distance(preds[i].t, tideNow) <= Distance(preds[j].t, tideNow)}
        IN  \E i \in nearest : tideData.currentHeight = LevelNumber(preds[i].v)

-----------------------------------------------------------------------------
(* Claims about GET /surfability, under SpecHandler *)

\* A source failed: network error or timeout, a status that is not 2xx, or a
\* body that cannot be used (for the weather API, one that lacks a block).
BuoyFailed == replies.buoy.kind = "rejected" \/ ~replies.buoy.ok \/ ~FeedHasHeader(buoyFeed)
MarineFailed ==
    \/ replies.marine.kind = "rejected"
    \/ ~replies.marine.ok
    \/ ~replies.marine.json
    \/ ~replies.marine.body.hasHourly
TideFailed == ReplyFailed(tideReplies.current) \/ ReplyFailed(tideReplies.predictions)
WeatherFailed ==
    \/ replies.weather.kind = "rejected"
    \/ ~replies.weather.ok
    \/ ~replies.weather.json
    \/ replies.weather.body.lacks # {}

IsReport(response) == response.status = 200 /\ "score" \in DOMAIN response
IsErrorResponse(response) == response.status >= 400 /\ "error" \in DOMAIN response

\* The handlers that ask the four sources, and whether the request got as
\* far as asking them (the controller refuses a query that is not valid).
AskingRoutes == IndexRoutes \cup {"controller"}
Asked == route = "controller" => Issues(replies.query) = <<>>

\* C13: whichever of the buoy, marine and tide sources fail, a request whose
\* weather source succeeds is answered with a 200 report, and a request whose
\* weather source fails with an error response and no report.
C13_OnlyWeatherIsFatal ==
    (pc = "done" /\ route \in AskingRoutes /\ Asked) =>
        /\ Len(responses) = 1
        /\ ~WeatherFailed => IsReport(responses[1])
        /\ WeatherFailed => IsErrorResponse(responses[1]) /\ ~IsReport(responses[1])

\* The same of the two handlers of index.ts alone, which holds.
IndexHandlersDegrade == route \in IndexRoutes => C13_OnlyWeatherIsFatal

\* C14: when neither the buoy nor the marine API yields wave data the request
\* is answered with an error response, never with a report.
C14_NoWaveDataIsAnError ==
    (pc = "done" /\ route \in IndexRoutes /\ BuoyFailed /\ MarineFailed)
        => IsErrorResponse(responses[1]) /\ ~IsReport(responses[1])

\* The conditions of a forecast hour are those of the current conditions.
SameConditions(now, hour) ==
    /\ hour.waveHeight = now.waveHeight
    /\ hour.wavePeriod = now.wavePeriod
    /\ hour.swellDirection = now.swellDirection
    /\ hour.windDirection = now.windDirection
    /\ hour.windSpeed = now.windSpeed
    /\ hour.tide = now.tide

\* C16: a forecast hour whose wave, wind and tide conditions are those of the
\* current conditions gets, in getConditionsDuration, the score the report
\* gives for the current conditions.
C16_SameCriteriaNowAndLater ==
    (pc = "done" /\ calls.made) =>
        \A k \in 1 .. Len(calls.hourlyForecasts) :
            LET hour == HourSurfData(calls.hourlyForecasts[k], calls.tide)
            IN  SameConditions(calls.currentSurfData, hour)
                    => calculateSurfability(hour, 0).score = responses[1].score

\* The marine feed supplies a number for the first hour of a field.
MarineSupplies(field) ==
    /\ ~MarineFailed
    /\ Len(replies.marine.body.hourly[field]) >= 1
    /\ IsNum(replies.marine.body.hourly[field][1])
MarineFirstHour(field) == replies.marine.body.hourly[field][1]

\* C26: each current wave field is the buoy's when there is a buoy reading,
\* else the marine value of the first hour whenever the feed supplies a
\* number there (0 included; the height times 3.28084), else the default:
\* 1.5 ft, 6 s, 90 degrees.
C26_FieldsByPriority ==
    (pc = "done" /\ calls.made) =>
        LET data == calls.currentSurfData
        IN  /\ buoyOut # Null =>
                  /\ data.waveHeight = buoyOut.waveHeight
                  /\ data.wavePeriod = buoyOut.wavePeriod
                  /\ data.swellDirection = buoyOut.swellDirection
            /\ buoyOut = Null =>
                  /\ data.waveHeight =
                         IF MarineSupplies("wave_height")
                         THEN Times(MarineFirstHour("wave_height"), FeetPerMeter)
                         ELSE OneAndHalf
                  /\ data.wavePeriod =
                         IF MarineSupplies("wave_period")
                         THEN MarineFirstHour("wave_period") ELSE Literal[6]
                  /\ data.swellDirection =
                         IF MarineSupplies("swell_wave_direction")
                         THEN MarineFirstHour("swell_wave_direction") ELSE Literal[90]

\* The marine feed has no number for hour k (from 1) of a field.
MarineLacks(field, k) ==
    \/ MarineFailed
    \/ Len(replies.marine.body.hourly[field]) < k
    \/ ~IsNum(replies.marine.body.hourly[field][k])

\* The hours of the forecast that getConditionsDuration scores.
ScoredHours ==
    {k \in 1 .. Len(calls.hourlyForecasts) : calls.hourlyForecasts[k].time >= replies.now}

\* C27: a forecast hour without marine values is scored with the defaults of
\* the current conditions: a wave height of 1.5 ft, a period of 6 s and a
\* direction of 90 degrees.
C27_ForecastDefaults ==
    (pc = "done" /\ calls.made) =>
        \A k \in ScoredHours :
            LET surfData == HourSurfData(calls.hourlyForecasts[k], calls.tide)
            IN  /\ MarineLacks("wave_height", k) => surfData.waveHeight = OneAndHalf
                /\ MarineLacks("wave_period", k) => surfData.wavePeriod = Literal[6]
                /\ MarineLacks("swell_wave_direction", k)
                      => surfData.swellDirection = Literal[90]

\* A SurfData whose wave and wind fields are numbers, the directions within
\* 0 to 360 degrees and the magnitudes not negative.
NotNegative(x) == IsNum(x) /\ LessOrEqual(Zero(FALSE), x)
WellFormed(surfData) ==
    /\ NotNegative(surfData.waveHeight)
    /\ NotNegative(surfData.wavePeriod)
    /\ NotNegative(surfData.windSpeed)
    /\ Within(surfData.swellDirection, Zero(FALSE), Literal[360])
    /\ Within(surfData.windDirection, Zero(FALSE), Literal[360])

\* C28: every SurfData the handler and getConditionsDuration pass to
\* calculateSurfability is well formed, also when an hourly array is shorter
\* than the array of times or holds a missing value.
C28_SurfDataWellFormed ==
    (pc = "done" /\ calls.made) =>
        /\ WellFormed(calls.currentSurfData)
        /\ \A k \in ScoredHours :
               WellFormed(HourSurfData(calls.hourlyForecasts[k], calls.tide))

\* A current wave field was filled with its default: there is no buoy
\* reading, and the field holds the default where the marine feed supplies
\* no number or another value.
HeightIsDefault ==
    /\ buoyOut = Null
    /\ calls.currentSurfData.waveHeight = OneAndHalf
    /\ MarineSupplies("wave_height")
          => Times(MarineFirstHour("wave_height"), FeetPerMeter) # OneAndHalf
PeriodIsDefault ==
    /\ buoyOut = Null
    /\ calls.currentSurfData.wavePeriod = Literal[6]
    /\ ~MarineSupplies("wave_period")
DirectionIsDefault ==
    /\ buoyOut = Null
    /\ calls.currentSurfData.swellDirection = Literal[90]
    /\ ~MarineSupplies("swell_wave_direction")

\* The names of the sources as the two handlers of index.ts write them.
BuoyLabel ==
    IF route = "first" THEN "NOAA Buoy + Weather API"
    ELSE "NOAA Buoy + NOAA Tides + Weather API"
MarineLabel ==
    IF route = "first" THEN "Marine + Weather API" ELSE "Marine + NOAA Tides + Weather API"
DefaultsLabel ==
    IF route = "first" THEN "Weather API + defaults"
    ELSE "Weather API + NOAA Tides + defaults"

\* C30: data_source names the buoy only when the three current wave fields
\* are the buoy's, the marine API only when the three are the marine feed's,
\* and says defaults whenever one of them was filled with a default.
C30_DataSourceIsTruthful ==
    (pc = "done" /\ calls.made) =>
        LET label == responses[1].details.data_source
            data == calls.currentSurfData
            anyDefault == HeightIsDefault \/ PeriodIsDefault \/ DirectionIsDefault
        IN  /\ label = BuoyLabel =>
                  /\ buoyOut # Null
                  /\ data.waveHeight = buoyOut.waveHeight
                  /\ data.wavePeriod = buoyOut.wavePeriod
                  /\ data.swellDirection = buoyOut.swellDirection
            /\ label = MarineLabel =>
                  /\ buoyOut = Null
                  /\ ~anyDefault
            /\ anyDefault => label = DefaultsLabel

\* C17: every request is eventually answered, and answered once: whatever
\* its sources do, a handler whose fetches are bounded by a timeout reaches
\* its end having sent one response, a report or an error response; and no
\* handler sends a second response, or one before its end.
C17_AnsweredExactlyOnce ==
    /\ route \in AskingRoutes
           => <>(pc = "done" /\ Len(responses) = 1
                    /\ (IsReport(responses[1]) \/ IsErrorResponse(responses[1])))
    /\ [](Len(responses) <= 1)
    /\ [](Len(responses) = 1 => pc = "done")

\* Every source of the first handler down: its one response is the error
\* response.
C17_Witness ==
    /\ pc = "done"
    /\ route = "first"
    /\ replies.buoy.kind = "rejected"
    /\ replies.marine.kind = "rejected"
    /\ replies.weather.kind = "rejected"
    /\ responses = <<ErrorResponse>>

-----------------------------------------------------------------------------
(* Claims about SimpleCache, under SpecCache *)

\* The methods of the services that look up the cache, and the await each
\* is suspended at when it asks upstream.
ServiceMethods == {"getMarineData", "getWeatherData", "getBuoyData", "getTideData"}
FirstAwait(method) == IF method = "getTideData" THEN "fetchTideData" ELSE "fetch"

\* C15: get never returns an entry older than the TTL, its age being the time
\* since it was stored.  A call of get, alone or made by a method of a
\* service, that returns data returns the data of the key's entry, stored at
\* most ttl ago; and when the key's entry was stored more than ttl ago, get
\* returns null and leaves the cache without the key, and the service goes
\* upstream.
C15_NeverServesStale ==
    [][ (clock' = clock /\ returned'.op \in {"get"} \cup ServiceMethods) =>
          LET key == returned'.key
              served == IF returned'.op = "get" THEN returned'.value # Null
                        ELSE ~returned'.fetched
              age == clock - MapGet(store, key).timestamp
          IN  /\ served =>
                    /\ MapHas(store, key)
                    /\ returned'.value = MapGet(store, key).data
                    /\ age <= limits.ttl
              /\ (MapHas(store, key) /\ age > limits.ttl) =>
                    /\ ~served
                    /\ ~MapHas(store', key)
                    /\ returned'.op = "get" => returned'.value = Null
                    /\ returned'.op \in ServiceMethods =>
                          /\ returned'.fetched
                          /\ flights' = Append(flights,
                                 Suspended(returned'.op, FirstAwait(returned'.op), clock))
      ]_vars

\* getWeatherData has been called when the entry of its key had outlived the
\* TTL: the entry is gone and the call has asked upstream.
C15_Witness ==
    /\ returned.op = "getWeatherData"
    /\ returned.had
    /\ returned.fetched
    /\ ~MapHas(store, returned.key)
    /\ flights # <<>>

\* C20: on a cache whose maxSize is at least 1, whatever calls of set (of new
\* keys, of keys already present) and of the other operations were made, the
\* number of entries stored is at most maxSize.
C20_SizeBounded == limits.maxSize >= 1 => Len(store) <= limits.maxSize

\* set has been called with a new key on a cache that was full, and the cache
\* holds maxSize entries.
C20_Witness ==
    /\ returned.op = "set"
    /\ returned.full
    /\ ~returned.had
    /\ limits.maxSize >= 2
    /\ Len(store) = limits.maxSize


KeysOf(map) == {map[i].key : i \in 1 .. Len(map)}

\* C21: a call of set on a full cache evicts the entry with the earliest
\* timestamp among those present, and a call of set with a key that is
\* already present evicts no other key.
C21_EvictsOldest ==
    [][ (clock' = clock /\ returned'.op = "set") =>
          LET key == returned'.key
              evicted == KeysOf(store) \ KeysOf(store')
          IN  /\ MapHas(store, key) => evicted = {}
              /\ (~MapHas(store, key) /\ IsFull(store, limits.maxSize) /\ store # <<>>) =>
                    \E old \in KeysOf(store) :
                        /\ evicted = {old}
                        /\ \A i \in 1 .. Len(store) :
                               MapGet(store, old).timestamp <= store[i].item.timestamp
      ]_vars

=============================================================================
